---- MODULE Spec2Model ----
(***************************************************************************)
(* A model of clippy_lints/src/utils/internal_lints.rs: the internal lint  *)
(* passes of clippy, each a callback the compiler's single traversal       *)
(* invokes on items and expressions.                                       *)
(*                                                                         *)
(*   Spec         LintWithoutLintPass over a whole traversal: check_item   *)
(*                on each visited item, then check_crate_post.             *)
(*   SpecItem     LintWithoutLintPass::check_item on the first item of a   *)
(*                run, over the full universe of item shapes.              *)
(*   SpecDefPath  UnnecessaryDefPath::check_expr on one expression.        *)
(***************************************************************************)
EXTENDS Integers, Sequences, FiniteSets, TLC

VARIABLES
    declared_lints,   \* LintWithoutLintPass.declared_lints: name -> span
    registered_lints, \* LintWithoutLintPass.registered_lints: set of names
    crate_allow,      \* the lints allowed at CRATE_HIR_ID (fixed for a run)
    pc,               \* where the run stands: "init", then the last callback
    nvisited,         \* how many items check_item has been called on
    lastItem,         \* the node the last callback was invoked on
    emitted,          \* the diagnostics the last callback emitted, in order
    locals,           \* the locals of the last check_expr when it returned
    symbol_map,       \* InterningDefinedSymbol.symbol_map: symbol value -> DefId
    seen_decl_all,    \* history: names of all visited lint declarations
    seen_decl_live,   \* history: ... of those visited with no lint allowed
    seen_reg_all,     \* history: names collected from all visited registrations
    seen_reg_live,    \* history: ... of those visited with no lint allowed
    named_after_all,  \* history: names a registration named after their declaration
    named_after_live  \* history: ... by a registration visited with no lint allowed

vars == <<declared_lints, registered_lints, crate_allow, pc, nvisited, lastItem,
          emitted, locals, symbol_map, seen_decl_all, seen_decl_live, seen_reg_all, seen_reg_live,
          named_after_all, named_after_live>>

history == <<seen_decl_all, seen_decl_live, seen_reg_all, seen_reg_live,
             named_after_all, named_after_live>>

(***************************************************************************)
(* Bounds of the model.                                                    *)
(***************************************************************************)
\* The longest traversal: how many items one run visits at most.
MaxVisits == 3

\* How deep a path argument nests references and `let` bindings.
MaxDepth == 2

\* The lint names (item identifiers) of the modelled crate.
Names == {"LINT_A", "LINT_B"}

None == [kind |-> "none"]

(***************************************************************************)
(* The HIR the passes read.  Expressions, types and attributes are records *)
(* tagged by kind, as the compiler's enums are.                            *)
(***************************************************************************)
LitStr(s)      == [kind |-> "lit_str", sym |-> s]
OtherExpr      == [kind |-> "other"]
StructExpr(fs) == [kind |-> "struct", fields |-> fs]
AddrOf(e)      == [kind |-> "addr_of", inner |-> e]
Field(id, e)   == [ident |-> id, expr |-> e]

\* hir::Ty of a static: `&T`, `&mut T` or `T`, T a path resolving to a struct.
Ty(isref, mutbl, def) == [ref |-> isref, mutbl |-> mutbl, def |-> def]
LintRefTy    == Ty(TRUE, "not", "Lint")
DeprecatedTy == Ty(FALSE, "not", "ClippyDeprecatedLint")
Tys ==
    { LintRefTy, DeprecatedTy, Ty(TRUE, "mut", "Lint"), Ty(FALSE, "not", "Lint"),
      Ty(TRUE, "not", "Other"), Ty(FALSE, "not", "Other") }

\* ast::Attribute: a doc comment, or a normal attribute `#[path = value]`.
Attr(normal, path, value) == [normal |-> normal, path |-> path, value |-> value]
VersionAttr(v) == Attr(TRUE, <<"clippy", "version">>, LitStr(v))

VersionStrings == {"1.63.0", "1.0.0", "pre 1.29.0", "banana", "1.x.0", ""}

AttrLists ==
    { <<>> }
    \cup { <<VersionAttr(v)>> : v \in VersionStrings }
    \cup { <<Attr(TRUE, <<"clippy", "version">>, None)>>,
           <<Attr(FALSE, <<"clippy", "version">>, LitStr("1.63.0"))>>,
           <<Attr(TRUE, <<"rustfmt", "version">>, LitStr("1.63.0"))>>,
           <<Attr(TRUE, <<"clippy", "msrv">>, LitStr("1.63.0"))>>,
           <<Attr(TRUE, <<"version">>, LitStr("1.63.0"))>>,
           <<Attr(FALSE, <<>>, LitStr("a doc comment")), VersionAttr("1.63.0")>>,
           <<Attr(TRUE, <<"clippy", "version">>, None), VersionAttr("banana")>> }

DescExprs ==
    { LitStr("default lint description"), LitStr("default deprecation note"),
      LitStr("a great new lint"), OtherExpr }

FieldLists ==
    { <<Field("name", LitStr("n")), Field("desc", d)>> : d \in DescExprs }
    \cup { <<Field("name", LitStr("n"))>> }

Inits ==
    { AddrOf(StructExpr(fs)) : fs \in FieldLists }
    \cup { StructExpr(fs) : fs \in FieldLists }
    \cup { AddrOf(OtherExpr), OtherExpr }

LintLevelSets == SUBSET {"DEFAULT_LINT", "DEFAULT_DEPRECATION_REASON"}

\* The paths inside a `get_lints` body, in the order the visitor meets them.
PathLists ==
    { <<>>, << <<"LINT_A">> >>, << <<"LINT_B">> >>,
      << <<"LINT_A">>, <<"LINT_B">> >>,
      << <<"paths", "LINT_A">> >>,
      << <<"LINT_B">>, <<"crate", "lints", "LINT_A">>, <<"LINT_B">> >> }

MacroNames == {"impl_lint_pass", "declare_lint_pass", "declare_tool_lint", "none"}

\* hir::Item, with the answers of the queries the pass makes about it.
StaticItem(allow, ident, mutbl, ty, attrs, init, macro) ==
    [kind |-> "static", allow |-> allow, ident |-> ident, mutbl |-> mutbl,
     ty |-> ty, attrs |-> attrs, init |-> init, macro |-> macro,
     of_trait |-> FALSE, impl_items |-> <<>>, get_lints |-> <<>>]

ImplItem(allow, macro, of_trait, impl_items, paths) ==
    [kind |-> "impl", allow |-> allow, ident |-> "", mutbl |-> "not",
     ty |-> Ty(FALSE, "not", "Other"), attrs |-> <<>>, init |-> OtherExpr,
     macro |-> macro, of_trait |-> of_trait, impl_items |-> impl_items,
     get_lints |-> paths]

OtherItem(allow, macro) ==
    [kind |-> "fn", allow |-> allow, ident |-> "", mutbl |-> "not",
     ty |-> Ty(FALSE, "not", "Other"), attrs |-> <<>>, init |-> OtherExpr,
     macro |-> macro, of_trait |-> FALSE, impl_items |-> <<>>, get_lints |-> <<>>]

ImplItemLists == { <<"get_lints">>, <<"name", "get_lints">>, <<"name">>, <<>> }

\* Every item shape check_item tells apart (SpecItem).
ItemUniverse ==
    { StaticItem(a, n, "not", t, at, i, "declare_tool_lint") :
        a \in LintLevelSets, n \in Names, t \in Tys, at \in AttrLists, i \in Inits }
    \cup { StaticItem(a, n, "mut", LintRefTy, <<>>, AddrOf(StructExpr(fs)), m) :
        a \in LintLevelSets, n \in Names, fs \in FieldLists, m \in MacroNames }
    \cup { ImplItem(a, m, t, ii, p) :
        a \in LintLevelSets, m \in MacroNames, t \in BOOLEAN,
        ii \in ImplItemLists, p \in PathLists }
    \cup { OtherItem(a, m) : a \in LintLevelSets, m \in MacroNames }

\* The items of a crate of lints (Spec): declarations and registrations.
RegistryItems ==
    { StaticItem(a, n, "not", t, <<VersionAttr("1.63.0")>>, i, "declare_tool_lint") :
        a \in LintLevelSets, n \in Names, t \in {LintRefTy, DeprecatedTy},
        i \in { AddrOf(StructExpr(<<Field("desc", LitStr("a great new lint"))>>)),
                StructExpr(<<Field("desc", LitStr("a great new lint"))>>),
                AddrOf(StructExpr(<<Field("desc", OtherExpr)>>)) } }
    \cup { ImplItem(a, m, t, <<"name", "get_lints">>, p) :
        a \in LintLevelSets, m \in {"impl_lint_pass", "declare_lint_pass", "none"},
        t \in BOOLEAN, p \in PathLists }
    \cup { ImplItem({}, "impl_lint_pass", FALSE, <<"name">>, <<>>) }
    \cup { StaticItem(a, n, "not", LintRefTy, <<>>,
                      AddrOf(StructExpr(<<Field("desc", LitStr("default lint description"))>>)),
                      "declare_tool_lint") :
             a \in { {}, {"DEFAULT_LINT"}, {"DEFAULT_DEPRECATION_REASON"} }, n \in Names }
    \cup { OtherItem({}, "none") }

(***************************************************************************)
(* Diagnostics.  A finding is what span_lint / span_lint_and_help /        *)
(* span_lint_and_then hand to the compiler: the lint, the span, the        *)
(* message, and the help and suggestion when there are any.  A backquote   *)
(* of a message is written ' here.                                        *)
(***************************************************************************)
Finding(lint, span, msg, help, sugg) ==
    [lint |-> lint, span |-> span, msg |-> msg, help |-> help, sugg |-> sugg]

span_lint(lint, span, msg) == Finding(lint, span, msg, None, None)

span_lint_and_help(lint, span, msg, help) == Finding(lint, span, msg, LitStr(help), None)

\* item.span: an item of the crate is identified by its kind and identifier.
SpanOf(item) == [kind |-> item.kind, ident |-> item.ident]

\* span.ctxt().outer_expn_data().call_site
call_site(span) == [kind |-> "call_site", of |-> span]

\* A node that carries no lint attributes allows nothing.
is_lint_allowed(lint, node) == "allow" \in DOMAIN node /\ lint \in node.allow

Some(v) == [kind |-> "some", val |-> v]

(***************************************************************************)
(* LintWithoutLintPass                                                     *)
(***************************************************************************)
is_lint_ref_type(ty) == ty.ref /\ ty.mutbl = "not" /\ ty.def = "Lint"

\* metadata_collector::is_deprecated_lint: the type is the path of the
\* ClippyDeprecatedLint struct.
is_deprecated_lint(ty) == ~ty.ref /\ ty.def = "ClippyDeprecatedLint"

\* The closure of extract_clippy_version_value, on one attribute.
version_of_attr(attr) ==
    IF /\ attr.normal
       /\ Len(attr.path) = 2
       /\ attr.path[1] = "clippy"
       /\ attr.path[2] = "version"
       /\ attr.value.kind = "lit_str"
    THEN Some(attr.value.sym)
    ELSE None

\* attrs.iter().find_map(..): the first attribute that yields a value.
extract_clippy_version_value(item) ==
    LET hits == { i \in 1..Len(item.attrs) : version_of_attr(item.attrs[i]) # None }
    IN  IF hits = {} THEN None
        ELSE version_of_attr(item.attrs[CHOOSE i \in hits : \A j \in hits : i <= j])

\* RustcVersion::parse(..).is_ok(), on the version strings of the model.
RustcVersion_parse_ok(s) == s \in {"1.63.0", "1.0.0"}

check_invalid_clippy_version_attribute_NoSentinel(item) ==
    LET value == extract_clippy_version_value(item)
    IN  IF value # None
        THEN IF ~RustcVersion_parse_ok(value.val)
             THEN << span_lint_and_help("INVALID_CLIPPY_VERSION_ATTRIBUTE", SpanOf(item),
                        "this item has an invalid 'clippy::version' attribute",
                        "please use a valid semantic version, see 'doc/adding_lints.md'") >>
             ELSE <<>>
        ELSE << span_lint_and_help("MISSING_CLIPPY_VERSION_ATTRIBUTE", SpanOf(item),
                    "this lint is missing the 'clippy::version' attribute or version value",
                    "please use a 'clippy::version' attribute, see 'doc/adding_lints.md'") >>

check_invalid_clippy_version_attribute(item) ==
    LET value == extract_clippy_version_value(item)
    IN  IF value # None
        THEN IF value.val = "pre 1.29.0"
             THEN <<>>
             ELSE IF ~RustcVersion_parse_ok(value.val)
             THEN << span_lint_and_help("INVALID_CLIPPY_VERSION_ATTRIBUTE", SpanOf(item),
                        "this item has an invalid 'clippy::version' attribute",
                        "please use a valid semantic version, see 'doc/adding_lints.md'") >>
             ELSE <<>>
        ELSE << span_lint_and_help("MISSING_CLIPPY_VERSION_ATTRIBUTE", SpanOf(item),
                    "this lint is missing the 'clippy::version' attribute or version value",
                    "please use a 'clippy::version' attribute, see 'doc/adding_lints.md'") >>

LintCollector_AnyPath(paths) ==
    { paths[i][Len(paths[i])] : i \in 1..Len(paths) }

LintCollector_FirstOnly(paths) ==
    IF Len(paths) > 0 /\ Len(paths[1]) = 1 THEN {paths[1][1]} ELSE {}

\* LintCollector::visit_path over every path of the body: the identifiers
\* of the single-segment paths.
LintCollector(paths) ==
    { paths[i][1] : i \in { j \in 1..Len(paths) : Len(paths[j]) = 1 } }

\* What one call of check_item does: the diagnostics it emits, the two sets
\* it leaves, and whether it panicked (an `expect` on a missing field or a
\* missing `get_lints`).
Outcome(em, decl, reg, panicked) ==
    [emitted |-> em, declared |-> decl, registered |-> reg, panicked |-> panicked]

default_lint_finding_AnySentinel(item, sym_str) ==
    IF sym_str \in {"default lint description", "default deprecation note"}
    THEN << span_lint("DEFAULT_LINT", SpanOf(item),
              "the lint '" \o item.ident \o "' has the default lint description") >>
    ELSE <<>>

\* Lines 464-471: the sentinel of a lint's description.
default_lint_finding(item, sym_str) ==
    IF sym_str = "default lint description"
    THEN << span_lint("DEFAULT_LINT", SpanOf(item),
              "the lint '" \o item.ident \o "' has the default lint description") >>
    ELSE <<>>

\* Lines 474-481: the sentinel of a deprecated lint's reason.
default_deprecation_finding(item, sym_str) ==
    IF sym_str = "default deprecation note"
    THEN << span_lint("DEFAULT_DEPRECATION_REASON", SpanOf(item),
              "the lint '" \o item.ident \o "' has the default deprecation reason") >>
    ELSE <<>>

check_desc_AnyDeclaration(item, fields, is_lint_ref_ty, version, declared, registered) ==
    LET descs == { i \in 1..Len(fields) : fields[i].ident = "desc" }
    IN  IF descs = {}
        THEN Outcome(version, declared, registered, TRUE)
        ELSE
        LET field == fields[CHOOSE i \in descs : \A j \in descs : i <= j]
        IN  IF field.expr.kind # "lit_str"
            THEN Outcome(version, declared, registered, FALSE)
            ELSE Outcome(
                    version \o (IF is_lint_ref_ty
                                THEN default_lint_finding(item, field.expr.sym)
                                ELSE default_deprecation_finding(item, field.expr.sym)),
                    [n \in DOMAIN declared \cup {item.ident} |->
                        IF n = item.ident THEN SpanOf(item) ELSE declared[n]],
                    registered, FALSE)

\* The `desc` part of check_item, lines 452-482.
check_desc(item, fields, is_lint_ref_ty, version, declared, registered) ==
    LET descs == { i \in 1..Len(fields) : fields[i].ident = "desc" }
    IN  IF descs = {}
        THEN Outcome(version, declared, registered, TRUE)
        ELSE
        LET field == fields[CHOOSE i \in descs : \A j \in descs : i <= j]
        IN  IF field.expr.kind # "lit_str"
            THEN Outcome(version, declared, registered, FALSE)
            ELSE IF is_lint_ref_ty
            THEN Outcome(
                    version \o default_lint_finding(item, field.expr.sym),
                    [n \in DOMAIN declared \cup {item.ident} |->
                        IF n = item.ident THEN SpanOf(item) ELSE declared[n]],
                    registered, FALSE)
            ELSE Outcome(version \o default_deprecation_finding(item, field.expr.sym),
                         declared, registered, FALSE)

\* The Static arm of check_item, lines 432-483.
check_static(item, declared, registered) ==
    LET is_lint_ref_ty == is_lint_ref_type(item.ty)
        unchanged == Outcome(<<>>, declared, registered, FALSE)
    IN  IF ~(is_deprecated_lint(item.ty) \/ is_lint_ref_ty)
        THEN unchanged
        ELSE
        LET version == check_invalid_clippy_version_attribute(item)
            expr == item.init
            returned == Outcome(version, declared, registered, FALSE)
        IN  IF is_lint_ref_ty
            THEN IF expr.kind = "addr_of" /\ expr.inner.kind = "struct"
                 THEN check_desc(item, expr.inner.fields, is_lint_ref_ty, version,
                                 declared, registered)
                 ELSE returned
            ELSE IF expr.kind = "struct"
                 THEN check_desc(item, expr.fields, is_lint_ref_ty, version,
                                 declared, registered)
                 ELSE returned

check_lint_pass_impl_Skip(item, declared, registered) ==
    IF /\ item.macro \in {"impl_lint_pass", "declare_lint_pass"}
       /\ item.kind = "impl" /\ ~item.of_trait
       /\ \E i \in 1..Len(item.impl_items) : item.impl_items[i] = "get_lints"
    THEN Outcome(<<>>, declared, registered \cup LintCollector(item.get_lints), FALSE)
    ELSE Outcome(<<>>, declared, registered, FALSE)

\* The macro arm of check_item, lines 484-513.
check_lint_pass_impl(item, declared, registered) ==
    LET unchanged == Outcome(<<>>, declared, registered, FALSE)
    IN  IF item.macro \notin {"impl_lint_pass", "declare_lint_pass"}
        THEN unchanged
        ELSE IF item.kind = "impl" /\ ~item.of_trait
        THEN IF \E i \in 1..Len(item.impl_items) : item.impl_items[i] = "get_lints"
             THEN Outcome(<<>>, declared,
                          registered \cup LintCollector(item.get_lints), FALSE)
             ELSE Outcome(<<>>, declared, registered, TRUE)
        ELSE unchanged

check_item_outcome_BothAllowed(item, declared, registered) ==
    IF /\ is_lint_allowed("DEFAULT_LINT", item)
       /\ is_lint_allowed("DEFAULT_DEPRECATION_REASON", item)
    THEN Outcome(<<>>, declared, registered, FALSE)
    ELSE IF item.kind = "static" /\ item.mutbl = "not"
    THEN check_static(item, declared, registered)
    ELSE IF item.macro # "none"
    THEN check_lint_pass_impl(item, declared, registered)
    ELSE Outcome(<<>>, declared, registered, FALSE)

\* Lines 425-513: the guard on the two allows, then the two arms.
check_item_outcome(item, declared, registered) ==
    IF \/ is_lint_allowed("DEFAULT_LINT", item)
       \/ is_lint_allowed("DEFAULT_DEPRECATION_REASON", item)
    THEN Outcome(<<>>, declared, registered, FALSE)
    ELSE IF item.kind = "static" /\ item.mutbl = "not"
    THEN check_static(item, declared, registered)
    ELSE IF item.macro # "none"
    THEN check_lint_pass_impl(item, declared, registered)
    ELSE Outcome(<<>>, declared, registered, FALSE)

(***************************************************************************)
(* What the traversal has visited, told from the items alone: the history  *)
(* variables record it beside the pass's own two sets.                     *)
(***************************************************************************)
\* A lint declaration: what `declare_clippy_lint!` expands to, an immutable
\* static of type `&Lint` initialised with `&Lint { .., desc: "..", .. }`.
IsLintDeclaration(item) ==
    /\ item.kind = "static"
    /\ item.mutbl = "not"
    /\ item.ty = LintRefTy
    /\ item.init.kind = "addr_of"
    /\ item.init.inner.kind = "struct"
    /\ \E i \in 1..Len(item.init.inner.fields) :
          /\ item.init.inner.fields[i].ident = "desc"
          /\ item.init.inner.fields[i].expr.kind = "lit_str"

\* A deprecated-lint declaration: a static of type ClippyDeprecatedLint.
IsDeprecatedDeclaration(item) ==
    /\ item.kind = "static"
    /\ item.mutbl = "not"
    /\ item.ty = DeprecatedTy

\* A group registration: the inherent impl with the `get_lints` accessor that
\* `impl_lint_pass!` / `declare_lint_pass!` expand to.
IsGroupRegistration(item) ==
    /\ item.kind = "impl"
    /\ item.macro \in {"impl_lint_pass", "declare_lint_pass"}
    /\ ~item.of_trait
    /\ \E i \in 1..Len(item.impl_items) : item.impl_items[i] = "get_lints"

\* The names a registration lists: its bare (single-segment) identifiers.
NamedBy(item) ==
    { n \in Names : \E i \in 1..Len(item.get_lints) : item.get_lints[i] = <<n>> }

Suppressed(item) == item.allow # {}

EmptyMap == [n \in {} |-> None]

CrateNode == [kind |-> "crate", allow |-> crate_allow]

Init ==
    /\ declared_lints = EmptyMap
    /\ registered_lints = {}
    /\ crate_allow \in SUBSET {"LINT_WITHOUT_LINT_PASS"}
    /\ pc = "init"
    /\ nvisited = 0
    /\ lastItem = None
    /\ emitted = <<>>
    /\ locals = None
    /\ symbol_map = EmptyMap
    /\ seen_decl_all = {}
    /\ seen_decl_live = {}
    /\ seen_reg_all = {}
    /\ seen_reg_live = {}
    /\ named_after_all = {}
    /\ named_after_live = {}

\* The history of one visit.
Observe(item) ==
    LET decl == IF IsLintDeclaration(item) THEN {item.ident} ELSE {}
        reg  == IF IsGroupRegistration(item) THEN NamedBy(item) ELSE {}
        live == ~Suppressed(item)
    IN  /\ seen_decl_all' = seen_decl_all \cup decl
        /\ seen_decl_live' = seen_decl_live \cup (IF live THEN decl ELSE {})
        /\ seen_reg_all' = seen_reg_all \cup reg
        /\ seen_reg_live' = seen_reg_live \cup (IF live THEN reg ELSE {})
        /\ named_after_all' = named_after_all \cup (reg \cap seen_decl_all)
        /\ named_after_live' =
              named_after_live \cup (IF live THEN reg \cap seen_decl_all ELSE {})

\* LateLintPass::check_item of LintWithoutLintPass, on one item.
check_item(item) ==
    /\ pc \in {"init", "visiting"}
    /\ nvisited < MaxVisits
    /\ LET out == check_item_outcome(item, declared_lints, registered_lints)
       IN  /\ declared_lints' = out.declared
           /\ registered_lints' = out.registered
           /\ emitted' = out.emitted
           /\ pc' = IF out.panicked THEN "aborted" ELSE "visiting"
    /\ nvisited' = nvisited + 1
    /\ lastItem' = item
    /\ Observe(item)
    /\ UNCHANGED <<crate_allow, locals, symbol_map>>

\* The orders in which a hash map may yield the keys S.
Orders(S) ==
    { f \in [1..Cardinality(S) -> S] : \A i, j \in 1..Cardinality(S) : f[i] = f[j] => i = j }

not_added(lint_name, lint_span) ==
    span_lint("LINT_WITHOUT_LINT_PASS", call_site(lint_span),
              "the lint '" \o lint_name \o "' is not added to any 'LintPass'")

crate_post_findings_NoLookup(order, declared, registered) ==
    [i \in 1..Len(order) |-> not_added(order[i], declared[order[i]])]

\* The findings of check_crate_post when the map is iterated in `order`.
crate_post_findings(order, declared, registered) ==
    LET unregistered == { i \in 1..Len(order) : order[i] \notin registered }
        F[i \in 0..Len(order)] ==
            IF i = 0 THEN <<>>
            ELSE IF i \in unregistered
                 THEN Append(F[i - 1], not_added(order[i], declared[order[i]]))
                 ELSE F[i - 1]
    IN  F[Len(order)]

\* LateLintPass::check_crate_post of LintWithoutLintPass.
check_crate_post ==
    /\ pc \in {"init", "visiting"}
    /\ pc' = "done"
    /\ lastItem' = CrateNode
    /\ IF is_lint_allowed("LINT_WITHOUT_LINT_PASS", CrateNode)
       THEN emitted' = <<>>
       ELSE \E order \in Orders(DOMAIN declared_lints) :
               emitted' = crate_post_findings(order, declared_lints, registered_lints)
    /\ UNCHANGED <<declared_lints, registered_lints, crate_allow, nvisited, locals, symbol_map>>
    /\ UNCHANGED history

VisitItem == \E item \in RegistryItems : check_item(item)

Next == VisitItem \/ check_crate_post

Spec == Init /\ [][Next]_vars

VisitFirstItem == pc = "init" /\ \E item \in ItemUniverse : check_item(item)

NextItem == VisitFirstItem \/ check_crate_post

SpecItem == Init /\ [][NextItem]_vars

(***************************************************************************)
(* Reading the diagnostics of the last callback.                           *)
(***************************************************************************)
Count(lint) == Cardinality({ i \in 1..Len(emitted) : emitted[i].lint = lint })

\* The names the "not added to any LintPass" findings of the last callback name.
ReportedNames ==
    { n \in Names : \E i \in 1..Len(emitted) :
        /\ emitted[i].lint = "LINT_WITHOUT_LINT_PASS"
        /\ emitted[i].msg = "the lint '" \o n \o "' is not added to any 'LintPass'" }

Visited == pc \in {"visiting", "aborted"}

(***************************************************************************)
(* C1                                                                      *)
(***************************************************************************)
\* C1 as stated: after any traversal the names reported as "not added to any
\* LintPass" are the names of all visited lint declarations minus the names
\* collected from all visited group registrations (read for a crate at whose
\* root LINT_WITHOUT_LINT_PASS itself is not allowed).
C1_AsStated ==
    (pc = "done" /\ "LINT_WITHOUT_LINT_PASS" \notin crate_allow) =>
        ReportedNames = seen_decl_all \ seen_reg_all

\* C1, amended: the reconciliation counts a declaration or a registration
\* only if neither DEFAULT_LINT nor DEFAULT_DEPRECATION_REASON is allowed at
\* its item, and reports nothing when LINT_WITHOUT_LINT_PASS is allowed at
\* the crate root; otherwise the reported names are the counted declarations
\* minus the counted registrations, one finding each.
C1_Reconciliation ==
    pc = "done" =>
        IF "LINT_WITHOUT_LINT_PASS" \in crate_allow
        THEN emitted = <<>>
        ELSE /\ ReportedNames = seen_decl_live \ seen_reg_live
             /\ Len(emitted) = Cardinality(ReportedNames)
             /\ \A i \in 1..Len(emitted) : emitted[i].lint = "LINT_WITHOUT_LINT_PASS"

\* A traversal that declared two lints and registered one of them: one is
\* reported, the other is not.
C1_Witness ==
    /\ pc = "done"
    /\ "LINT_WITHOUT_LINT_PASS" \notin crate_allow
    /\ ReportedNames # {}
    /\ seen_decl_live \cap seen_reg_live # {}

(***************************************************************************)
(* C2                                                                      *)
(***************************************************************************)
\* C2 as stated: no "not added to any LintPass" finding is emitted by
\* check_item, only by check_crate_post, and a group registration visited
\* after the declaration it names keeps that declaration from being reported.
C2_AsStated ==
    [][/\ nvisited' # nvisited => Count("LINT_WITHOUT_LINT_PASS")' = 0
       /\ pc' = "done" => named_after_all' \cap ReportedNames' = {}]_vars

\* C2, amended: no "not added to any LintPass" finding is emitted by
\* check_item, only by check_crate_post, and a group registration visited
\* after the declaration it names keeps that declaration from being reported
\* provided neither DEFAULT_LINT nor DEFAULT_DEPRECATION_REASON is allowed at
\* the registration's item.
C2_Deferred ==
    [][/\ nvisited' # nvisited => Count("LINT_WITHOUT_LINT_PASS")' = 0
       /\ pc' = "done" => named_after_live' \cap ReportedNames' = {}]_vars

\* The hook ran after a declaration was visited first and named by a later
\* registration, and reported another declaration.
C2_Witness ==
    /\ pc = "done"
    /\ named_after_live \cap seen_decl_live # {}
    /\ ReportedNames # {}

(***************************************************************************)
(* C3                                                                      *)
(***************************************************************************)
\* The statics the version check is about: lint and deprecated-lint
\* declarations, told by their type.
IsVersioned(item) ==
    item.kind = "static" /\ item.mutbl = "not" /\ item.ty \in {LintRefTy, DeprecatedTy}

\* The values of the `clippy::version` attributes of an item.
VersionValues(item) ==
    { item.attrs[i].value.sym :
        i \in { j \in 1..Len(item.attrs) :
                  /\ item.attrs[j].normal
                  /\ item.attrs[j].path = <<"clippy", "version">>
                  /\ item.attrs[j].value.kind = "lit_str" } }

VersionOutcomeIs(item) ==
    IF VersionValues(item) = {}
    THEN Count("MISSING_CLIPPY_VERSION_ATTRIBUTE") = 1
         /\ Count("INVALID_CLIPPY_VERSION_ATTRIBUTE") = 0
    ELSE IF \A v \in VersionValues(item) : v = "pre 1.29.0" \/ RustcVersion_parse_ok(v)
    THEN Count("MISSING_CLIPPY_VERSION_ATTRIBUTE") = 0
         /\ Count("INVALID_CLIPPY_VERSION_ATTRIBUTE") = 0
    ELSE Count("MISSING_CLIPPY_VERSION_ATTRIBUTE") = 0
         /\ Count("INVALID_CLIPPY_VERSION_ATTRIBUTE") = 1

\* C3 as stated: every visited lint or deprecated-lint declaration gets
\* exactly one version outcome: missing value, one "missing" finding; the
\* sentinel "pre 1.29.0" or a parseable value, none; any other value, one
\* "invalid" finding; never both.
C3_AsStated ==
    (Visited /\ IsVersioned(lastItem)) => VersionOutcomeIs(lastItem)

\* C3, amended: the same, for every visited lint or deprecated-lint
\* declaration at which neither DEFAULT_LINT nor DEFAULT_DEPRECATION_REASON
\* is allowed; where one of them is allowed no version finding is reported.
C3_VersionOutcome ==
    (Visited /\ IsVersioned(lastItem)) =>
        IF Suppressed(lastItem)
        THEN Count("MISSING_CLIPPY_VERSION_ATTRIBUTE") = 0
             /\ Count("INVALID_CLIPPY_VERSION_ATTRIBUTE") = 0
        ELSE VersionOutcomeIs(lastItem)

\* A declaration with the legacy sentinel was visited and got no finding.
C3_Witness ==
    /\ Visited
    /\ IsVersioned(lastItem)
    /\ ~Suppressed(lastItem)
    /\ VersionValues(lastItem) = {"pre 1.29.0"}
    /\ emitted = <<>>

(***************************************************************************)
(* C4                                                                      *)
(***************************************************************************)
\* The description literal of a declaration of either kind, None when the
\* item is no such declaration.
DescOf(item) ==
    LET fields == IF item.init.kind = "addr_of" THEN item.init.inner.fields
                  ELSE item.init.fields
        descs == { i \in 1..Len(fields) :
                     fields[i].ident = "desc" /\ fields[i].expr.kind = "lit_str" }
    IN  fields[CHOOSE i \in descs : TRUE].expr.sym

IsDeprecatedLintDeclaration(item) ==
    /\ IsDeprecatedDeclaration(item)
    /\ item.init.kind = "struct"
    /\ \E i \in 1..Len(item.init.fields) :
          /\ item.init.fields[i].ident = "desc"
          /\ item.init.fields[i].expr.kind = "lit_str"

DescOutcomeIs(item) ==
    /\ Count("DEFAULT_LINT") =
          IF IsLintDeclaration(item) /\ DescOf(item) = "default lint description"
          THEN 1 ELSE 0
    /\ Count("DEFAULT_DEPRECATION_REASON") =
          IF IsDeprecatedLintDeclaration(item) /\ DescOf(item) = "default deprecation note"
          THEN 1 ELSE 0

\* C4 as stated: a lint declaration described by "default lint description"
\* is reported (DEFAULT_LINT), a deprecated-lint declaration described by
\* "default deprecation note" is reported (DEFAULT_DEPRECATION_REASON), each
\* sentinel only for its own kind, and nothing else is (each finding read
\* for an item at which its own lint is not allowed).
C4_AsStated ==
    Visited =>
        /\ "DEFAULT_LINT" \notin lastItem.allow =>
              Count("DEFAULT_LINT") =
                 IF IsLintDeclaration(lastItem)
                    /\ DescOf(lastItem) = "default lint description"
                 THEN 1 ELSE 0
        /\ "DEFAULT_DEPRECATION_REASON" \notin lastItem.allow =>
              Count("DEFAULT_DEPRECATION_REASON") =
                 IF IsDeprecatedLintDeclaration(lastItem)
                    /\ DescOf(lastItem) = "default deprecation note"
                 THEN 1 ELSE 0

\* C4, amended: the same, for items at which neither DEFAULT_LINT nor
\* DEFAULT_DEPRECATION_REASON is allowed; where one of them is allowed
\* neither finding is reported.
C4_DefaultDescription ==
    Visited =>
        IF Suppressed(lastItem)
        THEN Count("DEFAULT_LINT") = 0 /\ Count("DEFAULT_DEPRECATION_REASON") = 0
        ELSE DescOutcomeIs(lastItem)

\* A deprecated lint carrying the lint's sentinel was visited, unreported.
C4_Witness ==
    /\ Visited
    /\ ~Suppressed(lastItem)
    /\ IsDeprecatedLintDeclaration(lastItem)
    /\ DescOf(lastItem) = "default lint description"
    /\ Count("DEFAULT_LINT") = 0
    /\ Count("DEFAULT_DEPRECATION_REASON") = 0

(***************************************************************************)
(* UnnecessaryDefPath                                                      *)
(*                                                                         *)
(* The program entities a def path may name.  An entity carries what the   *)
(* pass asks the compiler about it: its DefKind, its diagnostic-item name, *)
(* its lang-item name, whether its variant has a constructor, whether all  *)
(* its fields are public and, for a field, the inherent method of the same *)
(* name on the parent when there is one.                                   *)
(***************************************************************************)
Entity(kind, diag, lang, ctor, pub, method) ==
    [kind |-> kind, diag |-> diag, lang |-> lang, ctor |-> ctor, pub |-> pub,
     method |-> method]

DiagNames == {None, Some("Vec")}
LangNames == {None, Some("OwnedBox")}

Methods == { Entity("AssocFn", d, l, FALSE, FALSE, None) : d \in DiagNames, l \in LangNames }

Entities ==
    { Entity(k, d, l, c, p, None) :
        k \in {"Struct", "Variant"}, d \in DiagNames, l \in LangNames,
        c \in BOOLEAN, p \in BOOLEAN }
    \cup { Entity(k, d, l, FALSE, FALSE, None) :
        k \in {"Trait", "Fn"}, d \in DiagNames, l \in LangNames }
    \cup { Entity("Field", None, None, FALSE, FALSE, m) :
        m \in {None} \cup { Some(f) : f \in Methods } }

Tag(b) == IF b THEN "1" ELSE "0"

\* The def path of an entity in the modelled crate graph.
DefPathOf(e) ==
    << "krate", e.kind,
       Tag(e.diag # None) \o Tag(e.lang # None) \o Tag(e.ctor) \o Tag(e.pub)
         \o Tag(e.method # None)
         \o (IF e.method # None
             THEN Tag(e.method.val.diag # None) \o Tag(e.method.val.lang # None)
             ELSE "") >>

Err == [kind |-> "err"]
Def(e) == [kind |-> "def", def |-> e]

\* clippy_utils::def_path_res: the entity the segments name, or Res::Err.
def_path_res(segments) ==
    IF \E e \in Entities : DefPathOf(e) = segments
    THEN Def(CHOOSE e \in Entities : DefPathOf(e) = segments)
    ELSE Err

(***************************************************************************)
(* Types, constant values and allocations, as read_mir_alloc_def_path and  *)
(* path_to_matched_type read them.                                         *)
(***************************************************************************)
RefTy(mutbl, inner) == [kind |-> "ref", mutbl |-> mutbl, inner |-> inner]
ArrayTy(elem)       == [kind |-> "array", elem |-> elem]
SliceTy(elem)       == [kind |-> "slice", elem |-> elem]
StrTy               == [kind |-> "str"]
OtherTy             == [kind |-> "other"]
StrRefTy            == RefTy("not", StrTy)

\* An Allocation: its bytes as text (None when they are not UTF-8) and the
\* allocations its pointers lead to, in offset order.
Allocation(bytes, ptrs) == [bytes |-> bytes, ptrs |-> ptrs]
Memory(alloc)           == [kind |-> "memory", alloc |-> alloc]
FunctionAlloc           == [kind |-> "function"]

StrAlloc(s)  == Memory(Allocation(Some(s), <<>>))
ArrAlloc(ss) == Allocation(None, [i \in 1..Len(ss) |-> StrAlloc(ss[i])])
RefAlloc(a)  == Allocation(None, <<Memory(a)>>)

ByRef(alloc, offset) == [kind |-> "by_ref", alloc |-> alloc, offset |-> offset]
ScalarValue          == [kind |-> "scalar"]
SliceValue           == [kind |-> "slice"]

ArrayExpr(elems)     == [kind |-> "array", elems |-> elems]
PathExpr(res)        == [kind |-> "path", res |-> res]
LocalRes(init)       == [kind |-> "local", init |-> init]
StaticRes(ty, eval)  == [kind |-> "static", ty |-> ty, eval |-> eval]
ConstRes(ty, value)  == [kind |-> "const", ty |-> ty, value |-> value]
FnRes(def_path)      == [kind |-> "fn", def_path |-> def_path]

\* The closure of lines 1100-1108: the text a pointer of the array leads to.
alloc_str(galloc) ==
    IF galloc.kind = "memory" THEN galloc.alloc.bytes ELSE None

\* Option<Vec<_>>::from_iter: None if any element is None.
collect(opts) ==
    IF \E i \in 1..Len(opts) : opts[i] = None
    THEN None
    ELSE Some([i \in 1..Len(opts) |-> opts[i].val])

read_mir_alloc_def_path(alloc, ty) ==
    LET peel == ty.kind = "ref" /\ ty.mutbl = "not"
        failed == peel /\ (Len(alloc.ptrs) = 0 \/ alloc.ptrs[1].kind # "memory")
        alloc2 == IF peel THEN alloc.ptrs[1].alloc ELSE alloc
        ty2 == IF peel THEN ty.inner ELSE ty
    IN  IF failed THEN None
        ELSE IF /\ ty2.kind \in {"array", "slice"}
                /\ ty2.elem.kind = "ref"
                /\ ty2.elem.mutbl = "not"
                /\ ty2.elem.inner.kind = "str"
        THEN collect([i \in 1..Len(alloc2.ptrs) |-> alloc_str(alloc2.ptrs[i])])
        ELSE None

\* clippy_utils::peel_hir_expr_refs(expr).0
RECURSIVE peel_hir_expr_refs(_)
peel_hir_expr_refs(expr) ==
    IF expr.kind = "addr_of" THEN peel_hir_expr_refs(expr.inner) ELSE expr

\* The closure of lines 1067-1075, on one element of an array expression.
lit_str_of(elem) ==
    IF elem.kind = "lit_str" THEN Some(elem.sym) ELSE None

RECURSIVE path_to_matched_type_OneLevel(_)
path_to_matched_type_OneLevel(expr) ==
    LET peeled == peel_hir_expr_refs(expr)
    IN  IF peeled.kind = "path"
        THEN LET res == peeled.res
             IN  IF res.kind = "local"
                 THEN IF res.init # None /\ peel_hir_expr_refs(res.init).kind = "array"
                      THEN path_to_matched_type_OneLevel(res.init)
                      ELSE None
                 ELSE IF res.kind = "static"
                 THEN IF res.eval = Err THEN None
                      ELSE read_mir_alloc_def_path(res.eval, res.ty)
                 ELSE IF res.kind = "const"
                 THEN IF res.value.kind = "by_ref" /\ res.value.offset = 0
                      THEN read_mir_alloc_def_path(res.value.alloc, res.ty)
                      ELSE None
                 ELSE None
        ELSE IF peeled.kind = "array"
        THEN collect([i \in 1..Len(peeled.elems) |-> lit_str_of(peeled.elems[i])])
        ELSE None

RECURSIVE path_to_matched_type(_)
path_to_matched_type(expr) ==
    LET peeled == peel_hir_expr_refs(expr)
    IN  IF peeled.kind = "path"
        THEN LET res == peeled.res
             IN  IF res.kind = "local"
                 THEN IF res.init # None
                      THEN path_to_matched_type(res.init)
                      ELSE None
                 ELSE IF res.kind = "static"
                 THEN IF res.eval = Err THEN None
                      ELSE read_mir_alloc_def_path(res.eval, res.ty)
                 ELSE IF res.kind = "const"
                 THEN IF res.value.kind = "by_ref" /\ res.value.offset = 0
                      THEN read_mir_alloc_def_path(res.value.alloc, res.ty)
                      ELSE None
                 ELSE None
        ELSE IF peeled.kind = "array"
        THEN collect([i \in 1..Len(peeled.elems) |-> lit_str_of(peeled.elems[i])])
        ELSE None

\* The callees check_expr recognises, in the order of the static PATHS.
PATHS ==
    << <<"clippy_utils", "match_def_path">>,
       <<"clippy_utils", "match_trait_method">>,
       <<"clippy_utils", "ty", "match_type">>,
       <<"clippy_utils", "is_expr_path_def_path">> >>

\* clippy_utils::match_any_def_paths: the 0-based position of the first of
\* `paths` that is the def path of `id`.
match_any_def_paths(id, paths) ==
    LET hits == { i \in 1..Len(paths) : paths[i] = id }
    IN  IF hits = {} THEN None
        ELSE Some((CHOOSE i \in hits : \A j \in hits : i <= j) - 1)

item_arg_index_Last(which_path) == IF which_path = 3 THEN 2 ELSE 1

\* Line 919: which of `args` (those after the first two) holds the path;
\* 1 is args[0], 2 is args[1].
item_arg_index(which_path) == IF which_path = 4 THEN 2 ELSE 1

\* Lines 927-944: a field gives way to the inherent method of its name.
method_over_field(def_id) ==
    IF def_id.kind = "Field" /\ def_id.method # None THEN def_id.method.val ELSE def_id

DiagnosticItem(name) == [kind |-> "DiagnosticItem", name |-> name]
LangItem(name)       == [kind |-> "LangItem", name |-> name]

classify_Always(def_id) ==
    IF def_id.diag # None
    THEN Some(<<"use of a def path to a diagnostic item", DiagnosticItem(def_id.diag.val)>>)
    ELSE IF def_id.lang # None
    THEN Some(<<"use of a def path to a 'LangItem'", LangItem(def_id.lang.val)>>)
    ELSE Some(<<"use of a def path to a diagnostic item", DiagnosticItem("unknown")>>)

classify_DiagOnly(def_id) ==
    IF def_id.diag # None
    THEN Some(<<"use of a def path to a diagnostic item", DiagnosticItem(def_id.diag.val)>>)
    ELSE None

classify_LangFirst(def_id) ==
    IF def_id.lang # None
    THEN Some(<<"use of a def path to a 'LangItem'", LangItem(def_id.lang.val)>>)
    ELSE IF def_id.diag # None
    THEN Some(<<"use of a def path to a diagnostic item", DiagnosticItem(def_id.diag.val)>>)
    ELSE None

\* Lines 947-963: the message and the item, None for `return`.
classify(def_id) ==
    IF def_id.diag # None
    THEN Some(<<"use of a def path to a diagnostic item", DiagnosticItem(def_id.diag.val)>>)
    ELSE IF def_id.lang # None
    THEN Some(<<"use of a def path to a 'LangItem'", LangItem(def_id.lang.val)>>)
    ELSE None

\* Lines 965-975.
has_ctor_of(def_id) ==
    IF def_id.kind \in {"Struct", "Variant"} THEN def_id.ctor /\ def_id.pub ELSE FALSE

\* clippy_utils::source::snippet_with_applicability(cx, span, "..", &mut app):
\* the text and the applicability it leaves.
snippet_with_applicability(arg, app) ==
    LET app1 == IF app # "Unspecified" /\ arg.from_expansion THEN "MaybeIncorrect" ELSE app
    IN  IF arg.snip # None
        THEN <<arg.snip.val, app1>>
        ELSE <<"..", IF app1 = "MachineApplicable" THEN "HasPlaceholders" ELSE app1>>

sugg_for_NoCtor(which_path, item, has_ctor, cx_snip, def_snip) ==
    IF which_path = 0 /\ item.kind = "DiagnosticItem"
    THEN Some(<<cx_snip \o ".tcx.is_diagnostic_item(sym::" \o item.name \o ", "
                  \o def_snip \o ")", has_ctor>>)
    ELSE IF which_path = 0 /\ item.kind = "LangItem"
    THEN Some(<<cx_snip \o ".tcx.lang_items().require(LangItem::" \o item.name
                  \o ").ok() == Some(" \o def_snip \o ")", has_ctor>>)
    ELSE IF which_path = 1 /\ item.kind = "DiagnosticItem"
    THEN Some(<<"is_trait_method(" \o cx_snip \o ", " \o def_snip \o ", sym::"
                  \o item.name \o ")", FALSE>>)
    ELSE IF which_path = 2 /\ item.kind = "DiagnosticItem"
    THEN Some(<<"is_type_diagnostic_item(" \o cx_snip \o ", " \o def_snip \o ", sym::"
                  \o item.name \o ")", FALSE>>)
    ELSE IF which_path = 2 /\ item.kind = "LangItem"
    THEN Some(<<"is_type_lang_item(" \o cx_snip \o ", " \o def_snip \o ", LangItem::"
                  \o item.name \o ")", FALSE>>)
    ELSE IF which_path = 3 /\ item.kind = "DiagnosticItem"
    THEN Some(<<"is_path_diagnostic_item(" \o cx_snip \o ", " \o def_snip \o ", sym::"
                  \o item.name \o ")", FALSE>>)
    ELSE IF which_path = 3 /\ item.kind = "LangItem"
    THEN Some(<<"path_res(" \o cx_snip \o ", " \o def_snip \o ").opt_def_id()"
                  \o ".map_or(false, |id| " \o cx_snip
                  \o ".tcx.lang_items().require(LangItem::" \o item.name
                  \o ").ok() == Some(id))", FALSE>>)
    ELSE None

sugg_for_NoteEverywhere(which_path, item, has_ctor, cx_snip, def_snip) ==
    LET s == sugg_for_NoCtor(which_path, item, has_ctor, cx_snip, def_snip)
    IN  IF s = None THEN None ELSE Some(<<s.val[1], has_ctor>>)

\* Lines 980-1019: the rewrite and whether the note goes with it, None for
\* `return`.
sugg_for(which_path, item, has_ctor, cx_snip, def_snip) ==
    IF which_path = 0 /\ item.kind = "DiagnosticItem"
    THEN Some(<<cx_snip \o ".tcx.is_diagnostic_item(sym::" \o item.name \o ", "
                  \o def_snip \o ")", has_ctor>>)
    ELSE IF which_path = 0 /\ item.kind = "LangItem"
    THEN Some(<<cx_snip \o ".tcx.lang_items().require(LangItem::" \o item.name
                  \o ").ok() == Some(" \o def_snip \o ")", has_ctor>>)
    ELSE IF which_path = 1 /\ item.kind = "DiagnosticItem"
    THEN Some(<<"is_trait_method(" \o cx_snip \o ", " \o def_snip \o ", sym::"
                  \o item.name \o ")", FALSE>>)
    ELSE IF which_path = 2 /\ item.kind = "DiagnosticItem"
    THEN Some(<<"is_type_diagnostic_item(" \o cx_snip \o ", " \o def_snip \o ", sym::"
                  \o item.name \o ")", FALSE>>)
    ELSE IF which_path = 2 /\ item.kind = "LangItem"
    THEN Some(<<"is_type_lang_item(" \o cx_snip \o ", " \o def_snip \o ", LangItem::"
                  \o item.name \o ")", FALSE>>)
    ELSE IF which_path = 3 /\ item.kind = "DiagnosticItem" /\ has_ctor
    THEN Some(<<"is_res_diag_ctor(" \o cx_snip \o ", path_res(" \o cx_snip \o ", "
                  \o def_snip \o "), sym::" \o item.name \o ")", FALSE>>)
    ELSE IF which_path = 3 /\ item.kind = "LangItem" /\ has_ctor
    THEN Some(<<"is_res_lang_ctor(" \o cx_snip \o ", path_res(" \o cx_snip \o ", "
                  \o def_snip \o "), LangItem::" \o item.name \o ")", FALSE>>)
    ELSE IF which_path = 3 /\ item.kind = "DiagnosticItem"
    THEN Some(<<"is_path_diagnostic_item(" \o cx_snip \o ", " \o def_snip \o ", sym::"
                  \o item.name \o ")", FALSE>>)
    ELSE IF which_path = 3 /\ item.kind = "LangItem"
    THEN Some(<<"path_res(" \o cx_snip \o ", " \o def_snip \o ").opt_def_id()"
                  \o ".map_or(false, |id| " \o cx_snip
                  \o ".tcx.lang_items().require(LangItem::" \o item.name
                  \o ").ok() == Some(id))", FALSE>>)
    ELSE None

Suggestion(msg, text, app) == [kind |-> "sugg", msg |-> msg, text |-> text, app |-> app]

ExprSpan == [kind |-> "expr", ident |-> ""]

\* Lines 1021-1035: span_lint_and_then with the closure's suggestion and note.
def_path_finding(msg, sugg, with_note, app) ==
    Finding("UNNECESSARY_DEF_PATH", ExprSpan, msg,
            IF with_note
            THEN LitStr("if this 'DefId' came from a constructor expression or pattern then the parent 'DefId' should be used instead")
            ELSE None,
            Suggestion("try", sugg, app))

\* The locals of check_expr worth looking at after it returned.
Locals(which_path, item_arg, segments, def_id, has_ctor) ==
    [which_path |-> which_path, item_arg |-> item_arg, segments |-> segments,
     def_id |-> def_id, has_ctor |-> has_ctor]

ExprOutcome(em, loc, panicked) == [emitted |-> em, locals |-> loc, panicked |-> panicked]

Silent(loc) == ExprOutcome(<<>>, loc, FALSE)

\* The `then` block of check_expr, lines 924-1036.
def_path_then(expr, which_path, ia, segments, resolved) ==
    LET def_id == method_over_field(resolved)
        class == classify(def_id)
        has_ctor == has_ctor_of(def_id)
        loc == Locals(Some(which_path), ia, Some(segments), Some(def_id), has_ctor)
    IN  IF class = None THEN Silent(loc)
        ELSE
        LET cx_s == snippet_with_applicability(expr.args[1], "MachineApplicable")
            def_s == snippet_with_applicability(expr.args[2], cx_s[2])
            sugg == sugg_for(which_path, class.val[2], has_ctor, cx_s[1], def_s[1])
        IN  IF sugg = None THEN Silent(loc)
            ELSE ExprOutcome(
                    <<def_path_finding(class.val[1], sugg.val[1], sugg.val[2], def_s[2])>>,
                    loc, FALSE)

NoLocals == Locals(None, 0, None, None, FALSE)

\* UnnecessaryDefPath::check_expr, lines 898-1038.
def_path_check_expr(expr) ==
    IF is_lint_allowed("UNNECESSARY_DEF_PATH", expr) THEN Silent(NoLocals)
    ELSE IF expr.kind # "call" THEN Silent(NoLocals)
    ELSE IF Len(expr.args) < 2 THEN Silent(NoLocals)
    ELSE IF expr.func.kind # "path" THEN Silent(NoLocals)
    ELSE IF expr.func.res.kind # "fn" THEN Silent(NoLocals)
    ELSE
    LET found == match_any_def_paths(expr.func.res.def_path, PATHS)
    IN  IF found = None THEN Silent(NoLocals)
        ELSE
        LET which_path == found.val
            ia == item_arg_index(which_path)
            args == SubSeq(expr.args, 3, Len(expr.args))
        IN  IF ia > Len(args)
            THEN ExprOutcome(<<>>, Locals(found, ia, None, None, FALSE), TRUE)
            ELSE
            LET segments == path_to_matched_type(args[ia])
            IN  IF segments = None
                THEN Silent(Locals(found, ia, None, None, FALSE))
                ELSE
                LET res == def_path_res(segments.val)
                IN  IF res = Err
                    THEN Silent(Locals(found, ia, segments, None, FALSE))
                    ELSE def_path_then(expr, which_path, ia, segments.val, res.def)

(***************************************************************************)
(* The expressions check_expr is run on.                                   *)
(***************************************************************************)
Lits(path) == [i \in 1..Len(path) |-> LitStr(path[i])]

\* The entity the statics and constants of the model spell out.
VecPath == DefPathOf(Entity("Struct", Some("Vec"), None, TRUE, TRUE, None))

Statics ==
    { StaticRes(ArrayTy(StrRefTy), ArrAlloc(VecPath)),
      StaticRes(RefTy("not", SliceTy(StrRefTy)), RefAlloc(ArrAlloc(VecPath))),
      StaticRes(RefTy("not", ArrayTy(StrRefTy)), RefAlloc(ArrAlloc(VecPath))),
      StaticRes(RefTy("not", RefTy("not", SliceTy(StrRefTy))),
                RefAlloc(RefAlloc(ArrAlloc(VecPath)))),
      StaticRes(RefTy("mut", SliceTy(StrRefTy)), RefAlloc(ArrAlloc(VecPath))),
      StaticRes(ArrayTy(RefTy("not", OtherTy)), ArrAlloc(VecPath)),
      StaticRes(ArrayTy(RefTy("mut", StrTy)), ArrAlloc(VecPath)),
      StaticRes(OtherTy, Allocation(None, <<>>)),
      StaticRes(RefTy("not", SliceTy(StrRefTy)), Allocation(None, <<>>)),
      StaticRes(RefTy("not", SliceTy(StrRefTy)), Allocation(None, <<FunctionAlloc>>)),
      StaticRes(ArrayTy(StrRefTy),
                Allocation(None, <<StrAlloc("krate"), FunctionAlloc>>)),
      StaticRes(ArrayTy(StrRefTy),
                Allocation(None, <<StrAlloc("krate"), Memory(Allocation(None, <<>>))>>)),
      StaticRes(ArrayTy(StrRefTy), Err) }

Consts ==
    { ConstRes(ArrayTy(StrRefTy), ByRef(ArrAlloc(VecPath), 0)),
      ConstRes(ArrayTy(StrRefTy), ByRef(ArrAlloc(VecPath), 8)),
      ConstRes(RefTy("not", SliceTy(StrRefTy)), SliceValue),
      ConstRes(RefTy("not", ArrayTy(StrRefTy)), ScalarValue),
      ConstRes(ArrayTy(StrRefTy), Err) }

BasePathArgs ==
    { ArrayExpr(Lits(DefPathOf(e))) : e \in Entities }
    \cup { ArrayExpr(Lits(<<"krate", "nonexistent">>)),
           ArrayExpr(<<LitStr("krate"), OtherExpr>>),
           ArrayExpr(<<>>),
           OtherExpr,
           LitStr("krate"),
           PathExpr(LocalRes(None)),
           PathExpr(FnRes(<<"krate", "f">>)) }
    \cup { PathExpr(r) : r \in Statics \cup Consts }

\* Path arguments nesting at most d references and `let` bindings.
RECURSIVE PathArgsOfDepth(_)
PathArgsOfDepth(d) ==
    IF d = 0 THEN BasePathArgs
    ELSE LET inner == PathArgsOfDepth(d - 1)
         IN  BasePathArgs
             \cup { AddrOf(e) : e \in inner }
             \cup { PathExpr(LocalRes(e)) : e \in inner }

PathArgs == PathArgsOfDepth(MaxDepth)

\* An argument of which only the source text matters.
SnipExpr(snip, from_expansion) ==
    [kind |-> "snip", snip |-> snip, from_expansion |-> from_expansion]

SnipPairs ==
    { <<SnipExpr(Some("cx"), FALSE), SnipExpr(Some("did"), FALSE)>>,
      <<SnipExpr(None, FALSE), SnipExpr(Some("ty"), FALSE)>>,
      <<SnipExpr(Some("self.cx"), TRUE), SnipExpr(None, FALSE)>> }

Call(allow, func, args) == [kind |-> "call", allow |-> allow, func |-> func, args |-> args]

OtherCallees ==
    { PathExpr(FnRes(<<"clippy_utils", "match_path">>)),
      PathExpr(FnRes(<<"clippy_utils", "ty", "match_def_path">>)),
      PathExpr(FnRes(<<"clippy_utils", "match_def_path", "inner">>)),
      PathExpr(LocalRes(None)),
      OtherExpr }

Callees == { PathExpr(FnRes(PATHS[w])) : w \in 1..Len(PATHS) }

VecArg == AddrOf(ArrayExpr(Lits(VecPath)))

\* Calls of the recognised functions type-check: they have three arguments.
CallExprs ==
    { Call(a, f, <<sp[1], sp[2], e>>) :
        a \in SUBSET {"UNNECESSARY_DEF_PATH"}, f \in Callees, sp \in SnipPairs,
        e \in PathArgs }
    \cup { Call({}, f, <<sp[1], sp[2]>> \o rest) :
        f \in OtherCallees, sp \in SnipPairs,
        rest \in { <<>>, <<VecArg>>, <<VecArg, VecArg>> } }
    \cup { Call({}, f, args) :
        f \in OtherCallees, args \in { <<>>, <<SnipExpr(Some("cx"), FALSE)>> } }
    \cup { [kind |-> "method_call", allow |-> {}], [kind |-> "lit", allow |-> {}] }

\* LateLintPass::check_expr of UnnecessaryDefPath, on one expression.
unnecessary_def_path_check_expr(expr) ==
    /\ pc = "init"
    /\ LET out == def_path_check_expr(expr)
       IN  /\ emitted' = out.emitted
           /\ locals' = out.locals
           /\ pc' = IF out.panicked THEN "aborted" ELSE "expr"
    /\ lastItem' = expr
    /\ UNCHANGED <<declared_lints, registered_lints, crate_allow, nvisited, symbol_map>>
    /\ UNCHANGED history

NextDefPath == \E expr \in CallExprs : unnecessary_def_path_check_expr(expr)

InitDefPath == Init /\ crate_allow = {}

SpecDefPath == InitDefPath /\ [][NextDefPath]_vars

(***************************************************************************)
(* Reading a call and its finding.                                         *)
(***************************************************************************)
ExprDone == pc \in {"expr", "aborted"}

RecognizedCallees ==
    { <<"clippy_utils", "match_def_path">>,
      <<"clippy_utils", "match_trait_method">>,
      <<"clippy_utils", "ty", "match_type">>,
      <<"clippy_utils", "is_expr_path_def_path">> }

\* The last expression is a call of function `callee` with three arguments.
IsCallOf(callee) ==
    /\ lastItem.kind = "call"
    /\ Len(lastItem.args) = 3
    /\ lastItem.func.kind = "path"
    /\ lastItem.func.res.kind = "fn"
    /\ lastItem.func.res.def_path = callee

IsRecognizedCall == \E callee \in RecognizedCallees : IsCallOf(callee)

LintEnabled == "UNNECESSARY_DEF_PATH" \notin lastItem.allow

\* The entity the third argument of the call names: None when no segments
\* are extracted from it or they do not resolve.
NamedEntity ==
    LET segments == path_to_matched_type(lastItem.args[3])
    IN  IF segments = None THEN None
        ELSE IF def_path_res(segments.val) = Err THEN None
        ELSE Some(method_over_field(def_path_res(segments.val).def))

IsDiagnosticItem(e) == e.diag # None
IsLangItemOnly(e)   == e.diag = None /\ e.lang # None

\* The constructor flag: a struct or variant with a constructor and all
\* fields public.
HasConstructor(e) == e.kind \in {"Struct", "Variant"} /\ e.ctor /\ e.pub

\* The text of an argument as the rewrite quotes it.
SnipOf(arg) == IF arg.snip = None THEN ".." ELSE arg.snip.val

\* The documented rewrites that do not look at the constructor flag.
PlainRewrite(callee, e, cx, def) ==
    IF callee = <<"clippy_utils", "match_def_path">>
    THEN IF IsDiagnosticItem(e)
         THEN cx \o ".tcx.is_diagnostic_item(sym::" \o e.diag.val \o ", " \o def \o ")"
         ELSE cx \o ".tcx.lang_items().require(LangItem::" \o e.lang.val
                 \o ").ok() == Some(" \o def \o ")"
    ELSE IF callee = <<"clippy_utils", "match_trait_method">>
    THEN "is_trait_method(" \o cx \o ", " \o def \o ", sym::" \o e.diag.val \o ")"
    ELSE IF callee = <<"clippy_utils", "ty", "match_type">>
    THEN IF IsDiagnosticItem(e)
         THEN "is_type_diagnostic_item(" \o cx \o ", " \o def \o ", sym::" \o e.diag.val \o ")"
         ELSE "is_type_lang_item(" \o cx \o ", " \o def \o ", LangItem::" \o e.lang.val \o ")"
    ELSE IF IsDiagnosticItem(e)
         THEN "is_path_diagnostic_item(" \o cx \o ", " \o def \o ", sym::" \o e.diag.val \o ")"
         ELSE "path_res(" \o cx \o ", " \o def \o ").opt_def_id().map_or(false, |id| "
                 \o cx \o ".tcx.lang_items().require(LangItem::" \o e.lang.val
                 \o ").ok() == Some(id))"

\* The documented rewrites of is_expr_path_def_path for a constructor.
CtorRewrite(e, cx, def) ==
    IF IsDiagnosticItem(e)
    THEN "is_res_diag_ctor(" \o cx \o ", path_res(" \o cx \o ", " \o def \o "), sym::"
            \o e.diag.val \o ")"
    ELSE "is_res_lang_ctor(" \o cx \o ", path_res(" \o cx \o ", " \o def
            \o "), LangItem::" \o e.lang.val \o ")"

HasRewrite(f) == f.lint = "UNNECESSARY_DEF_PATH" /\ f.sugg # None /\ f.sugg.msg = "try"

(***************************************************************************)
(* C5                                                                      *)
(***************************************************************************)
\* C5: check_expr emits a finding only if the callee is one of the four
\* recognised functions, path segments are extracted from the path argument,
\* the segments resolve to an entity, and the entity is a diagnostic item or
\* a lang item; a failure at any step yields silence.
C5_SilentUnlessCanonical ==
    (ExprDone /\ emitted # <<>>) =>
        /\ Len(emitted) = 1
        /\ IsRecognizedCall
        /\ path_to_matched_type(lastItem.args[3]) # None
        /\ def_path_res(path_to_matched_type(lastItem.args[3]).val) # Err
        /\ NamedEntity.val.diag # None \/ NamedEntity.val.lang # None

\* A recognised call whose path resolves to an entity that is neither a
\* diagnostic item nor a lang item was met with silence.
C5_Witness ==
    /\ pc = "expr"
    /\ IsRecognizedCall
    /\ LintEnabled
    /\ NamedEntity # None
    /\ NamedEntity.val.diag = None
    /\ NamedEntity.val.lang = None
    /\ emitted = <<>>

(***************************************************************************)
(* C6                                                                      *)
(***************************************************************************)
OneRewriteFrom(callee, e) ==
    /\ Len(emitted) = 1
    /\ HasRewrite(emitted[1])
    /\ emitted[1].sugg.text \in
          { PlainRewrite(callee, e, SnipOf(lastItem.args[1]), SnipOf(lastItem.args[2])),
            CtorRewrite(e, SnipOf(lastItem.args[1]), SnipOf(lastItem.args[2])) }

\* C6 as stated: in each of the 8 cases, callee x {diagnostic item, lang
\* item}, a call whose path names an entity of that kind gets exactly one
\* finding with a rewrite built from the context and second-argument
\* snippets (read for a call at which UNNECESSARY_DEF_PATH is not allowed).
C6_AsStated ==
    \A callee \in RecognizedCallees :
        (/\ pc = "expr" /\ IsCallOf(callee) /\ LintEnabled
         /\ NamedEntity # None
         /\ IsDiagnosticItem(NamedEntity.val) \/ IsLangItemOnly(NamedEntity.val))
        => OneRewriteFrom(callee, NamedEntity.val)

\* C6, amended: 7 of the 8 cases get exactly one finding with such a
\* rewrite; the eighth, match_trait_method with a lang item that is no
\* diagnostic item, gets none.
C6_SevenRewrites ==
    \A callee \in RecognizedCallees :
        (/\ pc = "expr" /\ IsCallOf(callee) /\ LintEnabled
         /\ NamedEntity # None
         /\ IsDiagnosticItem(NamedEntity.val) \/ IsLangItemOnly(NamedEntity.val))
        => IF callee = <<"clippy_utils", "match_trait_method">>
              /\ IsLangItemOnly(NamedEntity.val)
           THEN emitted = <<>>
           ELSE OneRewriteFrom(callee, NamedEntity.val)

\* match_type on a lang item was rewritten to is_type_lang_item.
C6_Witness ==
    /\ pc = "expr"
    /\ IsCallOf(<<"clippy_utils", "ty", "match_type">>)
    /\ NamedEntity # None
    /\ IsLangItemOnly(NamedEntity.val)
    /\ Len(emitted) = 1
    /\ emitted[1].sugg.text = "is_type_lang_item(cx, did, LangItem::OwnedBox)"

(***************************************************************************)
(* C7                                                                      *)
(***************************************************************************)
\* C7 as stated: exactly four callees are recognised, and for one of the
\* four the path argument sits at another position than for the other three.
C7_AsStated ==
    (ExprDone /\ locals.which_path # None) =>
        /\ Len(PATHS) = 4
        /\ \E odd \in 0..3 : \A w \in 0..3 :
              item_arg_index(w) # 1 <=> w = odd

\* C7, amended: exactly four callees are recognised, and for each of the
\* four the path segments are extracted from the third argument of the call.
C7_ThirdArgument ==
    /\ Cardinality({ PATHS[i] : i \in 1..Len(PATHS) }) = 4
    /\ ExprDone =>
          /\ locals.which_path # None <=>
                (lastItem.kind = "call" /\ LintEnabled /\ IsRecognizedCall)
          /\ locals.which_path # None =>
                /\ locals.item_arg = 1
                /\ IsCallOf(PATHS[locals.which_path.val + 1])
                /\ locals.segments = path_to_matched_type(lastItem.args[3])

\* is_expr_path_def_path, the last of the four, got its finding from the
\* path in its third argument.
C7_Witness ==
    /\ pc = "expr"
    /\ locals.which_path = Some(3)
    /\ locals.item_arg = 1
    /\ emitted # <<>>

(***************************************************************************)
(* C8                                                                      *)
(***************************************************************************)
\* C8: for is_expr_path_def_path the rewrite uses is_res_diag_ctor /
\* is_res_lang_ctor over path_res(..) when the entity has a constructor and
\* is_path_diagnostic_item / the lang_items().require(..) comparison when it
\* has none; for the other three callees the rewrite is the same with and
\* without a constructor.
C8_CtorAccessor ==
    \A callee \in RecognizedCallees :
        (pc = "expr" /\ IsCallOf(callee) /\ emitted # <<>>) =>
            emitted[1].sugg.text =
                IF callee = <<"clippy_utils", "is_expr_path_def_path">>
                   /\ HasConstructor(NamedEntity.val)
                THEN CtorRewrite(NamedEntity.val, SnipOf(lastItem.args[1]),
                                 SnipOf(lastItem.args[2]))
                ELSE PlainRewrite(callee, NamedEntity.val, SnipOf(lastItem.args[1]),
                                  SnipOf(lastItem.args[2]))

\* is_expr_path_def_path on a lang item with a constructor was rewritten to
\* is_res_lang_ctor.
C8_Witness ==
    /\ pc = "expr"
    /\ IsCallOf(<<"clippy_utils", "is_expr_path_def_path">>)
    /\ NamedEntity # None
    /\ HasConstructor(NamedEntity.val)
    /\ Len(emitted) = 1
    /\ emitted[1].sugg.text = "is_res_lang_ctor(cx, path_res(cx, did), LangItem::OwnedBox)"

(***************************************************************************)
(* C9                                                                      *)
(***************************************************************************)
ParentDefIdNote ==
    LitStr("if this 'DefId' came from a constructor expression or pattern then the parent 'DefId' should be used instead")

\* C9: a finding carries the help about the parent DefId if and only if the
\* callee is match_def_path and the entity has a constructor.
C9_NoteIffCtorDefPath ==
    (pc = "expr" /\ emitted # <<>>) =>
        /\ emitted[1].help \in {None, ParentDefIdNote}
        /\ emitted[1].help = ParentDefIdNote <=>
              (IsCallOf(<<"clippy_utils", "match_def_path">>)
               /\ HasConstructor(NamedEntity.val))

\* match_def_path on a diagnostic item with a constructor got the note.
C9_Witness ==
    /\ pc = "expr"
    /\ IsCallOf(<<"clippy_utils", "match_def_path">>)
    /\ Len(emitted) = 1
    /\ HasConstructor(NamedEntity.val)
    /\ emitted[1].help = ParentDefIdNote

(***************************************************************************)
(* C10                                                                     *)
(***************************************************************************)
IsLiteralArray(e) == peel_hir_expr_refs(e).kind = "array"

IsLocalOfLiteralArray(e) ==
    LET p == peel_hir_expr_refs(e)
    IN  /\ p.kind = "path"
        /\ p.res.kind = "local"
        /\ p.res.init # None
        /\ IsLiteralArray(p.res.init)

IsStaticOrConst(e) ==
    LET p == peel_hir_expr_refs(e)
    IN  p.kind = "path" /\ p.res.kind \in {"static", "const"}

\* The expression at the end of a chain of references and `let` bindings.
RECURSIVE ChainEnd(_)
ChainEnd(e) ==
    IF e.kind = "addr_of" THEN ChainEnd(e.inner)
    ELSE IF e.kind = "path" /\ e.res.kind = "local" /\ e.res.init # None
    THEN ChainEnd(e.res.init)
    ELSE e

\* How many `let` bindings the chain goes through.
RECURSIVE ChainLocals(_)
ChainLocals(e) ==
    IF e.kind = "addr_of" THEN ChainLocals(e.inner)
    ELSE IF e.kind = "path" /\ e.res.kind = "local" /\ e.res.init # None
    THEN 1 + ChainLocals(e.res.init)
    ELSE 0

\* The segments the call's path argument was found to hold.
Extracted == locals.segments

PathExtractionRan == ExprDone /\ locals.which_path # None

\* C10 as stated: path extraction is unresolved for every expression other
\* than a literal array, a local bound directly to a literal array, or a
\* static or constant; a local initialised with another local is unresolved.
C10_AsStated ==
    (PathExtractionRan /\ Extracted # None) =>
        \/ IsLiteralArray(lastItem.args[3])
        \/ IsLocalOfLiteralArray(lastItem.args[3])
        \/ IsStaticOrConst(lastItem.args[3])

\* C10, amended: path extraction is unresolved for every expression other
\* than a literal array, a static or constant, or a local whose initialiser
\* is, in turn, one of these three: a chain of locals of any length is
\* followed to its end, and a chain that ends in an array of string
\* literals yields those strings.
C10_FollowsLocals ==
    PathExtractionRan =>
        LET end == ChainEnd(lastItem.args[3])
        IN  /\ Extracted # None =>
                  \/ end.kind = "array"
                  \/ end.kind = "path" /\ end.res.kind \in {"static", "const"}
            /\ (end.kind = "array"
                /\ \A i \in 1..Len(end.elems) : end.elems[i].kind = "lit_str") =>
                  Extracted = Some([i \in 1..Len(end.elems) |-> end.elems[i].sym])
            /\ (end.kind = "array"
                /\ \E i \in 1..Len(end.elems) : end.elems[i].kind # "lit_str") =>
                  Extracted = None
            /\ end.kind \notin {"array", "path"} => Extracted = None

\* The path was read through a local initialised with another local.
C10_Witness ==
    /\ PathExtractionRan
    /\ ChainLocals(lastItem.args[3]) >= 2
    /\ ChainEnd(lastItem.args[3]).kind = "array"
    /\ Extracted # None
    /\ emitted # <<>>

(***************************************************************************)
(* InvalidPaths                                                            *)
(***************************************************************************)
\* The strings of the interner, in the order of their indices.
InternedStrings ==
    << "", "core", "option", "Option", "Some", "None", "ops", "Deref", "deref",
       "str", "{impl#0}", "len", "nope", "nonexistent", "bogus", "path",
       "krate", "as_str", "sym", "kw", "f32", "Vec", "foo", "bar", "Struct" >>
    \o << VecPath[3] >>

\* Symbol::intern(s).as_u32(): equal strings get equal indices, and only they.
Symbol_intern(s) ==
    (CHOOSE i \in 1..Len(InternedStrings) : InternedStrings[i] = s) - 1

\* What tcx knows of a lang item or an incoherent impl.
DefInfo(def_path, def_kind, module_children, associated_items) ==
    [def_path |-> def_path, def_kind |-> def_kind,
     module_children |-> module_children, associated_items |-> associated_items]

\* lang_items.items() flattened.
lang_items ==
    << DefInfo(<<"core", "option", "Option">>, "Enum", {"Some", "None"}, {}),
       DefInfo(<<"core", "ops", "Deref">>, "Trait", {"deref"}, {}),
       DefInfo(<<"core", "f32">>, "Mod", {"nope"}, {}),
       DefInfo(<<"krate", "Struct">>, "Struct", {}, {"len"}) >>

\* tcx.incoherent_impls of f32, f64, slice and str, flattened.
incoherent_impls ==
    << DefInfo(<<"core", "str", "{impl#0}">>, "Impl", {}, {"len"}) >>

get_def_path(d) == [i \in 1..Len(d.def_path) |-> Symbol_intern(d.def_path[i])]

starts_with(s, prefix) ==
    Len(prefix) <= Len(s) /\ SubSeq(s, 1, Len(prefix)) = prefix

check_path_item_AnyTail(path_syms, d) ==
    /\ starts_with(path_syms, get_def_path(d))
    /\ Len(path_syms) > Len(d.def_path)

\* The body of the loop of check_path for one item: TRUE for `return true`.
check_path_item(path_syms, d) ==
    LET lang_item_path == get_def_path(d)
    IN  /\ starts_with(path_syms, lang_item_path)
        /\ Len(path_syms) = Len(lang_item_path) + 1
        /\ LET item == path_syms[Len(path_syms)]
           IN  IF d.def_kind \in {"Mod", "Enum", "Trait"}
               THEN \E child \in d.module_children : Symbol_intern(child) = item
               ELSE \E child \in d.associated_items : Symbol_intern(child) = item

check_path_PrimaryOnly(path) == def_path_res(path) # Err

\* Lines 1117-1160.
check_path(path) ==
    IF def_path_res(path) # Err THEN TRUE
    ELSE LET path_syms == [i \in 1..Len(path) |-> Symbol_intern(path[i])]
             items     == lang_items \o incoherent_impls
         IN  \E i \in 1..Len(items) : check_path_item(path_syms, items[i])

\* Constants as constant_simple evaluates them.
Constant_Vec(elems) == [kind |-> "Vec", elems |-> elems]
Constant_Str(s)     == [kind |-> "Str", s |-> s]
Constant_Repeat     == [kind |-> "Repeat"]

\* An item as InvalidPaths::check_item reads it: the name of its parent
\* module, its kind, its type and the value of its body (None when
\* constant_simple gives up).
ModItem(ident, mod_name, item_kind, ty, value) ==
    [kind |-> "mod_item", ident |-> ident, mod_name |-> mod_name,
     item_kind |-> item_kind, ty |-> ty, value |-> value]

invalid_paths_findings(item) ==
    IF /\ item.mod_name = "paths"
       /\ item.item_kind = "Const"
       /\ item.ty.kind = "array"
       /\ item.ty.elem.kind = "ref"
       /\ item.ty.elem.inner.kind = "str"
       /\ item.value # None
       /\ item.value.val.kind = "Vec"
       /\ ~check_path([i \in 1..Len(item.value.val.elems) |-> item.value.val.elems[i].s])
    THEN <<span_lint("INVALID_PATHS", SpanOf(item), "invalid path")>>
    ELSE <<>>

StrVec(path) == Constant_Vec([i \in 1..Len(path) |-> Constant_Str(path[i])])

PathValues ==
    { VecPath,
      <<"core", "option", "Option", "Some">>,
      <<"core", "option", "Option">>,
      <<"core", "option", "Option", "Some", "len">>,
      <<"core", "option", "Option", "len">>,
      <<"core", "ops", "Deref", "deref">>,
      <<"core", "f32", "nope">>,
      <<"core", "str", "{impl#0}", "len">>,
      <<"core", "str", "{impl#0}", "Some">>,
      <<"krate", "Struct", "len">>,
      <<"krate", "Struct", "nope">>,
      <<"nonexistent", "bogus", "path">>,
      <<"core">>,
      <<>> }

ItemTys ==
    { ArrayTy(StrRefTy), ArrayTy(RefTy("mut", StrTy)), ArrayTy(RefTy("not", OtherTy)),
      ArrayTy(StrTy), SliceTy(StrRefTy), RefTy("not", ArrayTy(StrRefTy)), OtherTy }

\* Items whose value agrees with their type.
ModItems ==
    { ModItem("P", m, k, ty, v) :
        m \in {"paths", "utils"}, k \in {"Const", "Static"}, ty \in ItemTys,
        v \in {None, Some(Constant_Repeat)} \cup { Some(StrVec(p)) : p \in PathValues } }

invalid_paths_check_item(item) ==
    /\ pc = "init"
    /\ pc' = "paths_item"
    /\ lastItem' = item
    /\ emitted' = invalid_paths_findings(item)
    /\ UNCHANGED <<declared_lints, registered_lints, crate_allow, nvisited, locals, symbol_map>>
    /\ UNCHANGED history

NextPaths == \E item \in ModItems : invalid_paths_check_item(item)

SpecPaths == InitDefPath /\ [][NextPaths]_vars

(***************************************************************************)
(* C11                                                                     *)
(***************************************************************************)
IsPathsConstant(item) ==
    /\ item.mod_name = "paths"
    /\ item.item_kind = "Const"
    /\ item.ty.kind = "array" /\ item.ty.elem.kind = "ref" /\ item.ty.elem.inner.kind = "str"
    /\ item.value # None
    /\ item.value.val.kind = "Vec"

PathOf(item) == [i \in 1..Len(item.value.val.elems) |-> item.value.val.elems[i].s]

PrimaryResolves(path) == \E e \in Entities : DefPathOf(e) = path

\* The paths that name a child of a lang item or of an incoherent impl:
\* module children for a module, enum or trait, associated items otherwise.
FallbackPaths ==
    LET items == lang_items \o incoherent_impls
    IN  UNION { { items[i].def_path \o <<c>> :
                    c \in IF items[i].def_kind \in {"Mod", "Enum", "Trait"}
                          THEN items[i].module_children
                          ELSE items[i].associated_items } :
                i \in 1..Len(items) }

\* C11: a constant of a module named "paths" whose type is an array of
\* string slices and whose value is a list of strings gets exactly one
\* "invalid path" finding if and only if its path resolves neither directly
\* nor as a child of a lang item or incoherent impl; items of other modules,
\* kinds or types get none.
C11_InvalidPathIff ==
    pc = "paths_item" =>
        /\ Len(emitted) <= 1
        /\ \A i \in 1..Len(emitted) :
              emitted[i] = span_lint("INVALID_PATHS", SpanOf(lastItem), "invalid path")
        /\ IsPathsConstant(lastItem) =>
              (Len(emitted) = 1 <=>
                 (~PrimaryResolves(PathOf(lastItem)) /\ PathOf(lastItem) \notin FallbackPaths))
        /\ ~IsPathsConstant(lastItem) => emitted = <<>>

\* A "paths" constant naming a method of the inherent impl of str, which
\* only the fallback finds, was accepted.
C11_Witness ==
    /\ pc = "paths_item"
    /\ IsPathsConstant(lastItem)
    /\ PathOf(lastItem) = <<"core", "str", "{impl#0}", "len">>
    /\ ~PrimaryResolves(PathOf(lastItem))
    /\ emitted = <<>>

(***************************************************************************)
(* InterningDefinedSymbol                                                  *)
(***************************************************************************)
KW_MODULE              == <<"rustc_span", "symbol", "kw">>
SYM_MODULE             == <<"rustc_span", "symbol", "sym">>
SYMBOL                 == <<"rustc_span", "symbol", "Symbol">>
IDENT                  == <<"rustc_span", "symbol", "Ident">>
SYMBOL_INTERN          == <<"rustc_span", "symbol", "Symbol", "intern">>
SYMBOL_AS_STR          == <<"rustc_span", "symbol", "Symbol", "as_str">>
SYMBOL_TO_IDENT_STRING == <<"rustc_span", "symbol", "Symbol", "to_ident_string">>
IDENT_AS_STR           == <<"rustc_span", "symbol", "Ident", "as_str">>
TO_STRING_METHOD       == <<"alloc", "string", "ToString", "to_string">>

AdtTy(def_path) == [kind |-> "adt", def_path |-> def_path]
SymbolTy == AdtTy(SYMBOL)
IdentTy  == AdtTy(IDENT)
StringTy == AdtTy(<<"alloc", "string", "String">>)

\* The expressions InterningDefinedSymbol::check_expr tells apart.  Where
\* an expression carries a type it is its typeck type.
Var(name, ty)    == [kind |-> "var", name |-> name, ty |-> ty]
Opaque(ty)       == [kind |-> "opaque", ty |-> ty]
LitInt(n)        == [kind |-> "lit_int", n |-> n]
Deref(e)         == [kind |-> "unary", op |-> "deref", inner |-> e]
Binary(op, l, r) == [kind |-> "binary", op |-> op, left |-> l, right |-> r]
FieldAccess(base, name, ty) ==
    [kind |-> "field", base |-> base, name |-> name, ty |-> ty]
\* recv.name(args): did is type_dependent_def_id, the def path of the method.
MethodCall(recv, name, args, did, ty) ==
    [kind |-> "method_call", recv |-> recv, name |-> name, args |-> args,
     did |-> did, ty |-> ty]
\* A call that may come from the expansion of a macro.
ExpnCall(func, args, expn) ==
    [kind |-> "call", allow |-> {}, func |-> func, args |-> args, expn |-> expn]
\* |param| body
Closure(param, body) == [kind |-> "closure", param |-> param, body |-> body]
\* { stmts; expr }: the statements by kind, the trailing expression if any.
Block(stmts, expr) == [kind |-> "block", stmts |-> stmts, expr |-> expr]
Semi(e)   == [kind |-> "semi", expr |-> e]
LetStmt   == [kind |-> "local"]
\* A path written `text`, resolving to something that is no function.
NamedPath(text) == [kind |-> "path", res |-> [kind |-> "def"], text |-> text]
\* A path to a constant item, by its printed def path.
ConstPath(def_path_str, ty) ==
    [kind |-> "path", res |-> ConstRes(ty, ScalarValue), text |-> def_path_str, ty |-> ty]

expr_ty(e) == IF "ty" \in DOMAIN e THEN e.ty ELSE OtherTy

\* The source text of an expression, None where there is none to quote.
RECURSIVE SourceOf(_)
RECURSIVE SourcesOf(_)
\* The texts of a list of arguments, separated by ", ".
SourcesOf(es) ==
    IF es = <<>> THEN Some("")
    ELSE IF SourceOf(Head(es)) = None \/ SourcesOf(Tail(es)) = None THEN None
    ELSE IF Len(es) = 1 THEN SourceOf(Head(es))
    ELSE Some(SourceOf(Head(es)).val \o ", " \o SourcesOf(Tail(es)).val)

SourceOf(e) ==
    IF e.kind = "var" THEN Some(e.name)
    ELSE IF e.kind = "snip" THEN e.snip
    ELSE IF e.kind = "lit_str" THEN Some("\"" \o e.sym \o "\"")
    ELSE IF e.kind = "lit_int" THEN Some(ToString(e.n))
    ELSE IF e.kind = "path" THEN
        IF "text" \in DOMAIN e THEN Some(e.text)
        ELSE IF e.res.kind = "fn" THEN Some(e.res.def_path[Len(e.res.def_path)])
        ELSE None
    ELSE IF e.kind = "field" THEN
        IF SourceOf(e.base) = None THEN None
        ELSE Some(SourceOf(e.base).val \o "." \o e.name)
    ELSE IF e.kind = "method_call" THEN
        IF SourceOf(e.recv) = None \/ SourcesOf(e.args) = None THEN None
        ELSE Some(SourceOf(e.recv).val \o "." \o e.name \o "(" \o SourcesOf(e.args).val \o ")")
    ELSE IF e.kind = "call" THEN
        IF SourceOf(e.func) = None \/ SourcesOf(e.args) = None THEN None
        ELSE Some(SourceOf(e.func).val \o "(" \o SourcesOf(e.args).val \o ")")
    ELSE IF e.kind = "closure" THEN
        IF SourceOf(e.body) = None THEN None
        ELSE Some("|" \o e.param \o "| " \o SourceOf(e.body).val)
    ELSE IF e.kind = "unary" THEN
        IF SourceOf(e.inner) = None THEN None ELSE Some("*" \o SourceOf(e.inner).val)
    ELSE IF e.kind = "addr_of" THEN
        IF SourceOf(e.inner) = None THEN None ELSE Some("&" \o SourceOf(e.inner).val)
    ELSE IF e.kind = "binary" THEN
        IF SourceOf(e.left) = None \/ SourceOf(e.right) = None THEN None
        ELSE Some(SourceOf(e.left).val \o " " \o e.op \o " " \o SourceOf(e.right).val)
    ELSE None

\* clippy_utils::source::snippet(cx, span, default)
snippet(e, default) == IF SourceOf(e) = None THEN default ELSE SourceOf(e).val

SpanOfExpr(e) == [kind |-> "expr", of |-> e]

\* the call site of the macro invocation a span expands from: nodes expanded
\* from one invocation (same site) share it
MacroCallSite(name, e) ==
    [kind |-> "macro", name |-> name, of |-> IF "site" \in DOMAIN e THEN e.site ELSE e]

\* clippy_utils::is_expn_of(expr.span, name)
is_expn_of(e, name) ==
    IF "expn" \in DOMAIN e /\ e.expn = name THEN Some(MacroCallSite(name, e)) ELSE None

span_lint_and_sugg(lint, sp, msg, help, sugg, app) ==
    Finding(lint, sp, msg, None, Suggestion(help, sugg, app))

\* constant_simple: a literal evaluates to itself, nothing else is simple.
constant_simple(e) ==
    IF e.kind = "lit_str" THEN Some(Constant_Str(e.sym))
    ELSE IF e.kind = "lit_int" THEN Some([kind |-> "Int", n |-> e.n])
    ELSE None

match_type(ty, path) == ty.kind = "adt" /\ ty.def_path = path

\* A child of a module as check_crate reads it.
ModChild(res_kind, ty, value, def_path_str) ==
    [res_kind |-> res_kind, ty |-> ty, value |-> value, def_path_str |-> def_path_str]

Scalar(n) == [kind |-> "scalar", ok |-> TRUE, bits |-> n]

\* A scalar of which to_u32 fails.
WideScalar(n) == [kind |-> "scalar", ok |-> FALSE, bits |-> n]

SymConst(def_path_str, str) ==
    ModChild("Const", SymbolTy, Scalar(Symbol_intern(str)), def_path_str)

\* The DefId of a constant: def_path_str is all that is asked of it.
ConstDefId(child) == [def_path_str |-> child.def_path_str]

def_path_str(def_id) == def_id.def_path_str

\* What def_path_res and module_children give for the two modules: the
\* children of each, None for a module that does not resolve.
SymWorld(kw, sym) == [kw |-> kw, sym |-> sym]

SymWorlds ==
    { SymWorld(Some(<<SymConst("kw::Empty", "")>>),
               Some(<< SymConst("sym::foo", "foo"),
                       ModChild("Fn", OtherTy, None, "sym::integer"),
                       ModChild("Const", OtherTy, Scalar(Symbol_intern("bar")), "sym::DIGITS"),
                       ModChild("Const", SymbolTy, ByRef(StrAlloc("bar").alloc, 0), "sym::lazy"),
                       ModChild("Const", SymbolTy, WideScalar(Symbol_intern("nope")), "sym::wide"),
                       SymConst("sym::Vec", "Vec") >>)),
      SymWorld(None, Some(<<SymConst("sym::bar", "bar")>>)),
      SymWorld(Some(<<SymConst("kw::Empty", "")>>), None),
      SymWorld(None, None) }

insert(map, key, value) ==
    [k \in DOMAIN map \cup {key} |-> IF k = key THEN value ELSE map[k]]

symbol_map_item_AnyConst(map, item) ==
    IF /\ item.res_kind = "Const"
       /\ item.value # None
       /\ item.value.kind = "scalar"
       /\ item.value.ok
    THEN insert(map, item.value.bits, ConstDefId(item))
    ELSE map

\* Lines 1211-1220 for one child.
symbol_map_item(map, item) ==
    IF /\ item.res_kind = "Const"
       /\ match_type(item.ty, SYMBOL)
       /\ item.value # None
       /\ item.value.kind = "scalar"
       /\ item.value.ok
    THEN insert(map, item.value.bits, ConstDefId(item))
    ELSE map

RECURSIVE symbol_map_module(_, _)
symbol_map_module(map, children) ==
    IF children = <<>> THEN map
    ELSE symbol_map_module(symbol_map_item(map, Head(children)), Tail(children))

check_crate_map_NoGuard(map, world) ==
    LET kw == IF world.kw = None THEN map ELSE symbol_map_module(map, world.kw.val)
    IN  IF world.sym = None THEN kw ELSE symbol_map_module(kw, world.sym.val)

\* Lines 1203-1224: the map check_crate leaves.
check_crate_map(map, world) ==
    IF map # EmptyMap THEN map
    ELSE LET kw == IF world.kw = None THEN map ELSE symbol_map_module(map, world.kw.val)
         IN  IF world.sym = None THEN kw ELSE symbol_map_module(kw, world.sym.val)

IDENT_STR_PATHS  == <<IDENT_AS_STR, TO_STRING_METHOD>>
SYMBOL_STR_PATHS == <<SYMBOL_AS_STR, SYMBOL_TO_IDENT_STRING, TO_STRING_METHOD>>

ends_with(s, suffix) ==
    Len(s) >= Len(suffix) /\ SubSeq(s, Len(s) - Len(suffix) + 1, Len(s)) = suffix

SymbolStrExpr_Const(def_id) == [kind |-> "Const", def_id |-> def_id]
SymbolStrExpr_Expr(item, is_ident, is_to_owned) ==
    [kind |-> "Expr", item |-> item, is_ident |-> is_ident, is_to_owned |-> is_to_owned]

\* paths.iter().find(|path| match_def_path(cx, did, path))
find_path(paths, did) ==
    IF \E i \in 1..Len(paths) : paths[i] = did
    THEN Some(paths[CHOOSE i \in 1..Len(paths) :
                       paths[i] = did /\ \A j \in 1..(i - 1) : paths[j] # did])
    ELSE None

\* Lines 1331-1339: a string constant that matches a symbol constant.
symbol_str_const(map, expr) ==
    IF constant_simple(expr) # None /\ constant_simple(expr).val.kind = "Str"
    THEN LET value == Symbol_intern(constant_simple(expr).val.s)
         IN  IF value \in DOMAIN map THEN Some(SymbolStrExpr_Const(map[value])) ELSE None
    ELSE None

symbol_str_expr_NeverOwned(map, expr) ==
    LET call == IF expr.kind = "addr_of" /\ expr.inner.kind = "unary" /\ expr.inner.op = "deref"
                THEN expr.inner.inner ELSE expr
    IN  IF /\ call.kind = "method_call" /\ call.args = <<>> /\ call.did # None
           /\ (match_type(expr_ty(call.recv), SYMBOL) \/ match_type(expr_ty(call.recv), IDENT))
           /\ find_path(IF match_type(expr_ty(call.recv), SYMBOL)
                        THEN SYMBOL_STR_PATHS ELSE IDENT_STR_PATHS, call.did.val) # None
        THEN Some(SymbolStrExpr_Expr(call.recv, ~match_type(expr_ty(call.recv), SYMBOL), FALSE))
        ELSE symbol_str_const(map, expr)

symbol_str_expr_AlwaysOwned(map, expr) ==
    LET call == IF expr.kind = "addr_of" /\ expr.inner.kind = "unary" /\ expr.inner.op = "deref"
                THEN expr.inner.inner ELSE expr
    IN  IF /\ call.kind = "method_call" /\ call.args = <<>> /\ call.did # None
           /\ (match_type(expr_ty(call.recv), SYMBOL) \/ match_type(expr_ty(call.recv), IDENT))
           /\ find_path(IF match_type(expr_ty(call.recv), SYMBOL)
                        THEN SYMBOL_STR_PATHS ELSE IDENT_STR_PATHS, call.did.val) # None
        THEN Some(SymbolStrExpr_Expr(call.recv, ~match_type(expr_ty(call.recv), SYMBOL), TRUE))
        ELSE symbol_str_const(map, expr)

\* Lines 1294-1340.
symbol_str_expr(map, expr) ==
    LET call == IF expr.kind = "addr_of" /\ expr.inner.kind = "unary" /\ expr.inner.op = "deref"
                THEN expr.inner.inner ELSE expr
        ty   == expr_ty(call.recv)
        is_ident == IF match_type(ty, SYMBOL) THEN Some(FALSE)
                    ELSE IF match_type(ty, IDENT) THEN Some(TRUE)
                    ELSE None
    IN  IF /\ call.kind = "method_call" /\ call.args = <<>> /\ call.did # None
           /\ is_ident # None
           /\ find_path(IF is_ident.val THEN IDENT_STR_PATHS ELSE SYMBOL_STR_PATHS,
                        call.did.val) # None
        THEN LET path == find_path(IF is_ident.val THEN IDENT_STR_PATHS ELSE SYMBOL_STR_PATHS,
                                   call.did.val).val
             IN  Some(SymbolStrExpr_Expr(call.recv, is_ident.val,
                                         ends_with(path[Len(path)], "string")))
        ELSE symbol_str_const(map, expr)

as_symbol_snippet_NoName(sse) ==
    IF sse.kind = "Const" THEN def_path_str(sse.def_id) ELSE snippet(sse.item, "..")

\* Lines 1358-1370.
as_symbol_snippet(sse) ==
    IF sse.kind = "Const" THEN def_path_str(sse.def_id)
    ELSE IF sse.is_ident THEN snippet(sse.item, "..") \o ".name"
    ELSE snippet(sse.item, "..")

interning_findings_AnyStr(map, expr) ==
    IF /\ expr.kind = "call" /\ Len(expr.args) = 1
       /\ expr.func.kind = "path" /\ expr.func.res.kind = "fn"
       /\ expr.func.res.def_path = SYMBOL_INTERN
       /\ constant_simple(expr.args[1]) # None
       /\ constant_simple(expr.args[1]).val.kind = "Str"
       /\ map # EmptyMap
    THEN <<span_lint_and_sugg("INTERNING_DEFINED_SYMBOL", SpanOfExpr(expr),
               "interning a defined symbol", "try",
               def_path_str(map[CHOOSE k \in DOMAIN map : TRUE]), "MachineApplicable")>>
    ELSE <<>>

\* Lines 1227-1245.
interning_findings(map, expr) ==
    IF /\ expr.kind = "call" /\ Len(expr.args) = 1
       /\ expr.func.kind = "path" /\ expr.func.res.kind = "fn"
       /\ expr.func.res.def_path = SYMBOL_INTERN
       /\ constant_simple(expr.args[1]) # None
       /\ constant_simple(expr.args[1]).val.kind = "Str"
       /\ Symbol_intern(constant_simple(expr.args[1]).val.s) \in DOMAIN map
    THEN <<span_lint_and_sugg("INTERNING_DEFINED_SYMBOL",
               IF is_expn_of(expr, "sym") # None THEN is_expn_of(expr, "sym").val
               ELSE SpanOfExpr(expr),
               "interning a defined symbol", "try",
               def_path_str(map[Symbol_intern(constant_simple(expr.args[1]).val.s)]),
               "MachineApplicable")>>
    ELSE <<>>

\* Lines 1246-1289.
symbol_str_findings(map, expr) ==
    IF expr.kind = "binary" /\ expr.op \in {"==", "!="}
    THEN LET l == symbol_str_expr(map, expr.left)
             r == symbol_str_expr(map, expr.right)
         IN  IF l # None /\ r # None
             THEN <<span_lint_and_sugg("UNNECESSARY_SYMBOL_STR", SpanOfExpr(expr),
                        "unnecessary 'Symbol' to string conversion", "try",
                        as_symbol_snippet(l.val) \o " " \o expr.op \o " "
                            \o as_symbol_snippet(r.val),
                        "MachineApplicable")>>
             ELSE IF l # None \/ r # None
             THEN LET e      == IF l # None THEN expr.left ELSE expr.right
                      symbol == IF l # None THEN l.val ELSE r.val
                  IN  IF symbol.kind = "Expr" /\ symbol.is_to_owned
                      THEN <<span_lint_and_sugg("UNNECESSARY_SYMBOL_STR", SpanOfExpr(e),
                                 "unnecessary string allocation", "try",
                                 as_symbol_snippet(symbol) \o ".as_str()",
                                 "MachineApplicable")>>
                      ELSE <<>>
             ELSE <<>>
    ELSE <<>>

interning_check_expr_findings(map, expr) ==
    interning_findings(map, expr) \o symbol_str_findings(map, expr)

\* The expressions of the modelled crate.
SymReceivers == { Var("a", SymbolTy), Var("b", SymbolTy), Var("i", IdentTy),
                  Var("s", StringTy), Opaque(SymbolTy) }

SymMethods(ty) ==
    IF ty = SymbolTy
    THEN { <<"as_str", Some(SYMBOL_AS_STR), StrRefTy>>,
           <<"to_ident_string", Some(SYMBOL_TO_IDENT_STRING), StringTy>>,
           <<"to_string", Some(TO_STRING_METHOD), StringTy>>,
           <<"as_u32", Some(<<"rustc_span", "symbol", "Symbol", "as_u32">>), OtherTy>> }
    ELSE IF ty = IdentTy
    THEN { <<"as_str", Some(IDENT_AS_STR), StrRefTy>>,
           <<"to_string", Some(TO_STRING_METHOD), StringTy>> }
    ELSE { <<"to_string", Some(TO_STRING_METHOD), StringTy>>,
           <<"as_str", Some(<<"alloc", "string", "String", "as_str">>), StrRefTy>> }

SymMethodCalls ==
    { MethodCall(r, m[1], <<>>, m[2], m[3]) :
        r \in SymReceivers \ {Var("b", SymbolTy)}, m \in SymMethods(SymbolTy) \cup SymMethods(IdentTy) \cup SymMethods(StringTy) }
    \cap UNION { { MethodCall(r, m[1], <<>>, m[2], m[3]) : m \in SymMethods(r.ty) } : r \in SymReceivers }

SymOperands ==
    SymMethodCalls
    \cup { MethodCall(Var("b", SymbolTy), "as_str", <<>>, Some(SYMBOL_AS_STR), StrRefTy),
           MethodCall(Var("a", SymbolTy), "as_str", <<>>, None, StrRefTy),
           MethodCall(Var("a", SymbolTy), "eq", <<Var("b", SymbolTy)>>, Some(SYMBOL_AS_STR), OtherTy),
           AddrOf(Deref(MethodCall(Var("a", SymbolTy), "to_string", <<>>, Some(TO_STRING_METHOD), StringTy))),
           AddrOf(MethodCall(Var("a", SymbolTy), "to_string", <<>>, Some(TO_STRING_METHOD), StringTy)),
           LitStr("foo"), LitStr("bar"), LitStr("nope"), LitInt(1), Var("s", StringTy) }

BinOps == {"==", "!=", "<"}

InternArgs == { LitStr("foo"), LitStr("bar"), LitStr("nope"), LitStr(""), LitInt(1),
                Var("s", StringTy) }

\* The operands every other operand is compared with.
SymCoreOperands ==
    { MethodCall(Var("a", SymbolTy), "as_str", <<>>, Some(SYMBOL_AS_STR), StrRefTy),
      MethodCall(Var("i", IdentTy), "to_string", <<>>, Some(TO_STRING_METHOD), StringTy),
      LitStr("foo"),
      Var("s", StringTy) }

SymExprs ==
    { Binary(op, l, r) : op \in {"==", "!="}, l \in SymCoreOperands, r \in SymOperands }
    \cup { Binary(op, l, r) : op \in {"==", "!="}, l \in SymOperands, r \in SymCoreOperands }
    \cup { Binary(op, l, r) : op \in BinOps \ {"==", "!="}, l \in SymCoreOperands, r \in SymCoreOperands }
    \cup { ExpnCall(PathExpr(FnRes(SYMBOL_INTERN)), <<a>>, x) :
             a \in InternArgs, x \in {"none", "sym"} }
    \cup { ExpnCall(PathExpr(FnRes(<<"rustc_span", "symbol", "Symbol", "as_str">>)),
                    <<LitStr("foo")>>, "none"),
           ExpnCall(PathExpr(LocalRes(None)), <<LitStr("foo")>>, "none"),
           ExpnCall(PathExpr(FnRes(SYMBOL_INTERN)), <<LitStr("foo"), LitStr("bar")>>, "none"),
           ExpnCall(PathExpr(FnRes(SYMBOL_INTERN)), <<>>, "none") }
    \cup SymOperands

interning_check_crate(world) ==
    /\ pc \in {"init", "sym_crate", "sym_expr"}
    /\ pc' = "sym_crate"
    /\ symbol_map' = check_crate_map(symbol_map, world)
    /\ lastItem' = [kind |-> "crate", allow |-> {}, world |-> world]
    /\ emitted' = <<>>
    /\ UNCHANGED <<declared_lints, registered_lints, crate_allow, nvisited, locals>>
    /\ UNCHANGED history

interning_check_expr(expr) ==
    /\ pc \in {"init", "sym_crate", "sym_expr"}
    /\ pc' = "sym_expr"
    /\ lastItem' = expr
    /\ emitted' = interning_check_expr_findings(symbol_map, expr)
    /\ UNCHANGED <<declared_lints, registered_lints, crate_allow, nvisited, locals, symbol_map>>
    /\ UNCHANGED history

SymCrate == \E world \in SymWorlds : interning_check_crate(world)

SymExpr == \E expr \in SymExprs : interning_check_expr(expr)

NextSym == SymCrate \/ SymExpr

SpecSym == InitDefPath /\ [][NextSym]_vars

(***************************************************************************)
(* Reading an expression as the symbol lints' descriptions do.              *)
(***************************************************************************)
FindingsOf(lint) == SelectSeq(emitted, LAMBDA f : f.lint = lint)

\* A call of Symbol::intern on one string literal.
IsInternOfLiteral(e) ==
    /\ e.kind = "call"
    /\ Len(e.args) = 1
    /\ e.func = PathExpr(FnRes(SYMBOL_INTERN))
    /\ e.args[1].kind = "lit_str"

IsIndexed(str) == Symbol_intern(str) \in DOMAIN symbol_map

IndexedPath(str) == symbol_map[Symbol_intern(str)].def_path_str

\* The operand without a leading `&*`.
Unborrowed(e) ==
    IF e.kind = "addr_of" /\ e.inner.kind = "unary" /\ e.inner.op = "deref"
    THEN e.inner.inner ELSE e

BorrowingConversions == { <<SymbolTy, SYMBOL_AS_STR>>, <<IdentTy, IDENT_AS_STR>> }

OwnedConversions ==
    { <<SymbolTy, SYMBOL_TO_IDENT_STRING>>, <<SymbolTy, TO_STRING_METHOD>>,
      <<IdentTy, TO_STRING_METHOD>> }

IsConversionIn(e, conversions) ==
    LET c == Unborrowed(e)
    IN  /\ c.kind = "method_call"
        /\ c.args = <<>>
        /\ c.did # None
        /\ <<expr_ty(c.recv), c.did.val>> \in conversions

IsOwnedConversion(e)     == IsConversionIn(e, OwnedConversions)
IsBorrowingConversion(e) == IsConversionIn(e, BorrowingConversions)
IsMatchingLiteral(e)     == e.kind = "lit_str" /\ IsIndexed(e.sym)

Classifies(e) == IsOwnedConversion(e) \/ IsBorrowingConversion(e) \/ IsMatchingLiteral(e)

\* The handle of a classified operand: the text of the receiver, with
\* `.name` for an identifier, or the path of the indexed constant.
HandleText(e) ==
    IF IsMatchingLiteral(e) THEN IndexedPath(e.sym)
    ELSE LET recv == Unborrowed(e).recv
             text == IF SourceOf(recv) = None THEN ".." ELSE SourceOf(recv).val
         IN  IF expr_ty(recv) = IdentTy THEN text \o ".name" ELSE text

(***************************************************************************)
(* C12                                                                     *)
(***************************************************************************)
\* C12: a call of Symbol::intern on a constant string gets the finding
\* "interning a defined symbol", with the rewrite to the indexed constant's
\* path, if and only if the interned value of the string is a key of the
\* symbol index; no other expression gets such a finding.
C12_InterningIffIndexed ==
    pc = "sym_expr" =>
        IF IsInternOfLiteral(lastItem) /\ IsIndexed(lastItem.args[1].sym)
        THEN /\ Len(FindingsOf("INTERNING_DEFINED_SYMBOL")) = 1
             /\ FindingsOf("INTERNING_DEFINED_SYMBOL")[1].msg = "interning a defined symbol"
             /\ FindingsOf("INTERNING_DEFINED_SYMBOL")[1].sugg =
                   Suggestion("try", IndexedPath(lastItem.args[1].sym), "MachineApplicable")
        ELSE FindingsOf("INTERNING_DEFINED_SYMBOL") = <<>>

\* Symbol::intern("foo") was rewritten to sym::foo.
C12_Witness ==
    /\ pc = "sym_expr"
    /\ IsInternOfLiteral(lastItem)
    /\ lastItem.args[1].sym = "foo"
    /\ Len(emitted) = 1
    /\ emitted[1].sugg.text = "sym::foo"

(***************************************************************************)
(* C13                                                                     *)
(***************************************************************************)
\* C13: an == or != comparison gets at most one symbol-string finding: both
\* operands classify -> "unnecessary 'Symbol' to string conversion" on the
\* whole comparison; exactly one classifies and it is an owned-string
\* conversion -> "unnecessary string allocation", span and rewrite
\* `<handle>.as_str()` on that operand alone; exactly one classifies and it
\* is a borrowing conversion or a matching literal -> none; neither
\* classifies -> none.  Other expressions get none.
C13_OperandClassification ==
    pc = "sym_expr" =>
        LET fs == FindingsOf("UNNECESSARY_SYMBOL_STR")
            l  == lastItem.left
            r  == lastItem.right
        IN  /\ Len(fs) <= 1
            /\ (lastItem.kind # "binary" \/ lastItem.op \notin {"==", "!="}) => fs = <<>>
            /\ (lastItem.kind = "binary" /\ lastItem.op \in {"==", "!="}) =>
                  IF Classifies(l) /\ Classifies(r)
                  THEN /\ Len(fs) = 1
                       /\ fs[1].msg = "unnecessary 'Symbol' to string conversion"
                       /\ fs[1].span = SpanOfExpr(lastItem)
                  ELSE IF Classifies(l) /\ IsOwnedConversion(l)
                  THEN /\ Len(fs) = 1
                       /\ fs[1].msg = "unnecessary string allocation"
                       /\ fs[1].span = SpanOfExpr(l)
                       /\ fs[1].sugg.text = HandleText(l) \o ".as_str()"
                  ELSE IF Classifies(r) /\ IsOwnedConversion(r)
                  THEN /\ Len(fs) = 1
                       /\ fs[1].msg = "unnecessary string allocation"
                       /\ fs[1].span = SpanOfExpr(r)
                       /\ fs[1].sugg.text = HandleText(r) \o ".as_str()"
                  ELSE fs = <<>>

\* In `s == i.to_string()` only the right operand was rewritten, to
\* `i.name.as_str()`.
C13_Witness ==
    /\ pc = "sym_expr"
    /\ lastItem.kind = "binary"
    /\ lastItem.op = "=="
    /\ ~Classifies(lastItem.left)
    /\ IsOwnedConversion(lastItem.right)
    /\ Len(emitted) = 1
    /\ emitted[1].span = SpanOfExpr(lastItem.right)
    /\ emitted[1].sugg.text = "i.name.as_str()"

(***************************************************************************)
(* C14                                                                     *)
(***************************************************************************)
\* C14: when both operands of an == or != comparison classify, the rewrite
\* is `<left handle> <op> <right handle>`, operator and order kept; a
\* method-call operand gives its receiver's text, with `.name` exactly for
\* an identifier, a matching literal the indexed constant's path.
C14_HandleComparison ==
    (/\ pc = "sym_expr"
     /\ lastItem.kind = "binary"
     /\ lastItem.op \in {"==", "!="}
     /\ Classifies(lastItem.left)
     /\ Classifies(lastItem.right)) =>
        /\ Len(emitted) = 1
        /\ emitted[1].sugg =
              Suggestion("try",
                         HandleText(lastItem.left) \o " " \o lastItem.op \o " "
                             \o HandleText(lastItem.right),
                         "MachineApplicable")

\* `a.as_str() == b.as_str()` on symbols was rewritten to `a == b`.
C14_Witness ==
    /\ pc = "sym_expr"
    /\ SourceOf(lastItem) = Some("a.as_str() == b.as_str()")
    /\ Len(emitted) = 1
    /\ emitted[1].sugg.text = "a == b"

\* `i.to_string() != "foo"` was rewritten to `i.name != sym::foo`.
C14_WitnessIdent ==
    /\ pc = "sym_expr"
    /\ SourceOf(lastItem) = Some("i.to_string() != \"foo\"")
    /\ Len(emitted) = 1
    /\ emitted[1].sugg.text = "i.name != sym::foo"

(***************************************************************************)
(* C19                                                                     *)
(***************************************************************************)
\* C19: over any sequence of check_crate and check_expr calls the symbol
\* index is populated by at most one check_crate call and never modified
\* afterwards: once it has entries no call changes it, and check_expr never
\* changes it.
C19_PopulatedOnce ==
    [][/\ symbol_map # EmptyMap => symbol_map' = symbol_map
       /\ pc' = "sym_expr" => symbol_map' = symbol_map]_vars

\* A later check_crate, on modules that alone would give another index,
\* left the populated index as it was.
C19_Witness ==
    /\ pc = "sym_crate"
    /\ symbol_map # EmptyMap
    /\ check_crate_map(EmptyMap, lastItem.world) # EmptyMap
    /\ check_crate_map(EmptyMap, lastItem.world) # symbol_map

(***************************************************************************)
(* C20                                                                     *)
(***************************************************************************)
\* An inherent impl that impl_lint_pass! / declare_lint_pass! produced but
\* that has no `get_lints` method.
IsRegistrationWithoutAccessor(item) ==
    /\ item.kind = "impl"
    /\ ~item.of_trait
    /\ item.macro \in {"impl_lint_pass", "declare_lint_pass"}
    /\ \A i \in 1..Len(item.impl_items) : item.impl_items[i] # "get_lints"

\* C20 as stated: visiting a group registration without a `get_lints`
\* method aborts the traversal, with no finding and without skipping it.
C20_AsStated ==
    (Visited /\ IsRegistrationWithoutAccessor(lastItem)) =>
        pc = "aborted" /\ emitted = <<>>

\* C20, amended: visiting a group registration without a `get_lints` method
\* aborts the traversal, with no finding, where neither DEFAULT_LINT nor
\* DEFAULT_DEPRECATION_REASON is allowed at the item; where one of them is
\* allowed the item is skipped and the traversal goes on.
C20_FatalUnlessSuppressed ==
    (Visited /\ IsRegistrationWithoutAccessor(lastItem)) =>
        /\ emitted = <<>>
        /\ pc = IF Suppressed(lastItem) THEN "visiting" ELSE "aborted"

\* The traversal stopped at a registration without accessor.
C20_Witness ==
    /\ pc = "aborted"
    /\ IsRegistrationWithoutAccessor(lastItem)
    /\ ~Suppressed(lastItem)
    /\ declared_lints = EmptyMap
    /\ registered_lints = {}

(***************************************************************************)
(* CollapsibleCalls                                                        *)
(***************************************************************************)
SPAN_LINT_AND_THEN == <<"clippy_utils", "diagnostics", "span_lint_and_then">>

\* clippy_utils::is_expr_path_def_path(cx, func, path)
is_expr_path_def_path(func, path) ==
    func.kind = "path" /\ func.res.kind = "fn" /\ func.res.def_path = path

\* clippy_utils::peel_blocks_with_stmt
RECURSIVE peel_blocks_with_stmt(_)
peel_blocks_with_stmt(e) ==
    IF e.kind # "block" THEN e
    ELSE IF e.stmts = <<>> /\ e.expr # None THEN peel_blocks_with_stmt(e.expr.val)
    ELSE IF Len(e.stmts) = 1 /\ e.stmts[1].kind = "semi" /\ e.expr = None
    THEN peel_blocks_with_stmt(e.stmts[1].expr)
    ELSE e

\* SpanlessEq::new(cx).deny_side_effects().eq_expr(left, right): structural
\* equality that a call or method call on either side defeats.
RECURSIVE eq_expr(_, _)
eq_expr(left, right) ==
    IF left.kind # right.kind THEN FALSE
    ELSE IF left.kind = "var" THEN left.name = right.name
    ELSE IF left.kind = "field" THEN eq_expr(left.base, right.base) /\ left.name = right.name
    ELSE IF left.kind \in {"addr_of", "unary"} THEN eq_expr(left.inner, right.inner)
    ELSE IF left.kind = "lit_str" THEN left.sym = right.sym
    ELSE FALSE

AndThenSnippets(cx, lint, span, msg) == [cx |-> cx, lint |-> lint, span |-> span, msg |-> msg]

get_and_then_snippets(and_then_snippets) ==
    AndThenSnippets(snippet(and_then_snippets[1], "cx"),
                    snippet(and_then_snippets[2], ".."),
                    snippet(and_then_snippets[3], "span"),
                    snippet(and_then_snippets[4], "\"...\""))

SpanSuggestionSnippets(help, sugg, applicability) ==
    [help |-> help, sugg |-> sugg, applicability |-> applicability]

span_suggestion_snippets(span_call_args) ==
    SpanSuggestionSnippets(snippet(span_call_args[2], "\"...\""),
                           snippet(span_call_args[3], ".."),
                           snippet(span_call_args[4], "Applicability::MachineApplicable"))

collapsible(expr, text) ==
    span_lint_and_sugg("COLLAPSIBLE_SPAN_LINT_CALLS", SpanOfExpr(expr),
                       "this call is collapsible", "collapse into", text, "MachineApplicable")

suggest_suggestion(expr, ats, sss) ==
    collapsible(expr,
        "span_lint_and_sugg(" \o ats.cx \o ", " \o ats.lint \o ", " \o ats.span \o ", "
            \o ats.msg \o ", " \o sss.help \o ", " \o sss.sugg \o ", " \o sss.applicability \o ")")

suggest_help_NeverSpan(expr, ats, help, with_span) ==
    collapsible(expr,
        "span_lint_and_help(" \o ats.cx \o ", " \o ats.lint \o ", " \o ats.span \o ", "
            \o ats.msg \o ", None, " \o help \o ")")

suggest_help(expr, ats, help, with_span) ==
    LET option_span == IF with_span THEN "Some(" \o ats.span \o ")" ELSE "None"
    IN  collapsible(expr,
            "span_lint_and_help(" \o ats.cx \o ", " \o ats.lint \o ", " \o ats.span \o ", "
                \o ats.msg \o ", " \o option_span \o ", " \o help \o ")")

suggest_note(expr, ats, note, with_span) ==
    LET note_span == IF with_span THEN "Some(" \o ats.span \o ")" ELSE "None"
    IN  collapsible(expr,
            "span_lint_and_note(" \o ats.cx \o ", " \o ats.lint \o ", " \o ats.span \o ", "
                \o ats.msg \o ", " \o note_span \o ", " \o note \o ")")

\* What a callback leaves: its findings, and whether it panicked.
Reported(em)  == [emitted |-> em, panicked |-> FALSE]
Panicked      == [emitted |-> <<>>, panicked |-> TRUE]

collapsible_match_NoSpanCheck(expr, and_then_args, name, span_call_args) ==
    LET ats == get_and_then_snippets(and_then_args)
        n   == Len(span_call_args)
    IN  IF name = "span_suggestion" THEN
            IF n < 4 THEN Panicked
            ELSE Reported(<<suggest_suggestion(expr, ats, span_suggestion_snippets(span_call_args))>>)
        ELSE IF name = "span_help" THEN
            IF n < 2 THEN Panicked
            ELSE Reported(<<suggest_help(expr, ats, snippet(span_call_args[2], "\"...\""), TRUE)>>)
        ELSE IF name = "span_note" THEN
            IF n < 2 THEN Panicked
            ELSE Reported(<<suggest_note(expr, ats, snippet(span_call_args[2], "\"...\""), TRUE)>>)
        ELSE IF name = "help" THEN
            IF n < 1 THEN Panicked
            ELSE Reported(<<suggest_help(expr, ats, snippet(span_call_args[1], "\"...\""), FALSE)>>)
        ELSE IF name = "note" THEN
            IF n < 1 THEN Panicked
            ELSE Reported(<<suggest_note(expr, ats, snippet(span_call_args[1], "\"...\""), FALSE)>>)
        ELSE Reported(<<>>)

\* Lines 743-766: the match on the method's name.
collapsible_match(expr, and_then_args, name, span_call_args) ==
    LET ats == get_and_then_snippets(and_then_args)
        n   == Len(span_call_args)
    IN  IF name = "span_suggestion" THEN
            IF n < 1 THEN Panicked
            ELSE IF ~eq_expr(and_then_args[3], span_call_args[1]) THEN Reported(<<>>)
            ELSE IF n < 4 THEN Panicked
            ELSE Reported(<<suggest_suggestion(expr, ats, span_suggestion_snippets(span_call_args))>>)
        ELSE IF name = "span_help" THEN
            IF n < 1 THEN Panicked
            ELSE IF ~eq_expr(and_then_args[3], span_call_args[1]) THEN Reported(<<>>)
            ELSE IF n < 2 THEN Panicked
            ELSE Reported(<<suggest_help(expr, ats, snippet(span_call_args[2], "\"...\""), TRUE)>>)
        ELSE IF name = "span_note" THEN
            IF n < 1 THEN Panicked
            ELSE IF ~eq_expr(and_then_args[3], span_call_args[1]) THEN Reported(<<>>)
            ELSE IF n < 2 THEN Panicked
            ELSE Reported(<<suggest_note(expr, ats, snippet(span_call_args[2], "\"...\""), TRUE)>>)
        ELSE IF name = "help" THEN
            IF n < 1 THEN Panicked
            ELSE Reported(<<suggest_help(expr, ats, snippet(span_call_args[1], "\"...\""), FALSE)>>)
        ELSE IF name = "note" THEN
            IF n < 1 THEN Panicked
            ELSE Reported(<<suggest_note(expr, ats, snippet(span_call_args[1], "\"...\""), FALSE)>>)
        ELSE Reported(<<>>)

\* Lines 728-769.
collapsible_check_expr_outcome(expr) ==
    IF is_lint_allowed("COLLAPSIBLE_SPAN_LINT_CALLS", expr) THEN Reported(<<>>)
    ELSE IF expr.kind # "call" THEN Reported(<<>>)
    ELSE IF ~is_expr_path_def_path(expr.func, SPAN_LINT_AND_THEN) THEN Reported(<<>>)
    ELSE IF Len(expr.args) # 5 THEN Reported(<<>>)
    ELSE IF expr.args[5].kind # "closure" THEN Reported(<<>>)
    ELSE LET only_expr == peel_blocks_with_stmt(expr.args[5].body)
         IN  IF only_expr.kind # "method_call" THEN Reported(<<>>)
             ELSE IF only_expr.recv.kind \notin {"var", "path"} THEN Reported(<<>>)
             ELSE collapsible_match(expr, expr.args, only_expr.name, only_expr.args)

\* The expressions of the modelled crate.
SpanExprs ==
    { FieldAccess(Var("expr", OtherTy), "span", OtherTy),
      FieldAccess(Var("item", OtherTy), "span", OtherTy),
      Var("span", OtherTy),
      MethodCall(Var("expr", OtherTy), "span", <<>>, None, OtherTy) }

DiagCall(recv, name, args) == MethodCall(recv, name, args, None, OtherTy)

SuggTail ==
    << MethodCall(Var("sugg", OtherTy), "to_string", <<>>, None, StringTy),
       NamedPath("Applicability::MachineApplicable") >>

DiagCalls ==
    LET diag == Var("diag", OtherTy)
        help == Var("help_msg", OtherTy)
    IN  { DiagCall(diag, "span_suggestion", <<sp, help>> \o SuggTail) : sp \in SpanExprs }
        \cup { DiagCall(diag, n, <<sp, help>>) :
                 n \in {"span_help", "span_note", "span_label"}, sp \in SpanExprs }
        \cup { DiagCall(diag, n, <<m>>) :
                 n \in {"help", "note", "warn"}, m \in {help, Block(<<LetStmt>>, Some(help))} }
        \cup { DiagCall(diag, n, <<>>) : n \in {"span_suggestion", "span_help", "help", "note", "emit"} }
        \cup { DiagCall(diag, n, <<FieldAccess(Var("expr", OtherTy), "span", OtherTy)>>) :
                 n \in {"span_suggestion", "span_note"} }
        \cup { DiagCall(DiagCall(diag, "clone", <<>>), "help", <<help>>) }

ClosureBodies ==
    UNION { { d,
              Block(<<>>, Some(d)),
              Block(<<Semi(d)>>, None),
              Block(<<>>, Some(Block(<<Semi(d)>>, None))),
              Block(<<Semi(d), Semi(d)>>, None),
              Block(<<LetStmt>>, Some(d)) } : d \in DiagCalls }
    \cup { Var("diag", OtherTy) }

AndThenHead(sp, msg) == <<Var("cx", OtherTy), Var("TEST_LINT", OtherTy), sp, msg>>

AndThenCalls ==
    { Call(allow, PathExpr(FnRes(SPAN_LINT_AND_THEN)),
           AndThenHead(sp, Var("lint_msg", OtherTy)) \o <<Closure("diag", b)>>) :
        allow \in SUBSET {"COLLAPSIBLE_SPAN_LINT_CALLS"}, sp \in SpanExprs, b \in ClosureBodies }
    \cup { Call({}, PathExpr(FnRes(SPAN_LINT_AND_THEN)),
                <<Opaque(OtherTy), Opaque(OtherTy), Opaque(OtherTy), Opaque(OtherTy),
                  Closure("diag", DiagCall(Var("diag", OtherTy), "help", <<Opaque(OtherTy)>>))>>),
           Call({}, PathExpr(FnRes(SPAN_LINT_AND_THEN)),
                AndThenHead(Var("span", OtherTy), LitStr("msg")) \o <<Var("f", OtherTy)>>),
           Call({}, PathExpr(FnRes(SPAN_LINT_AND_THEN)),
                AndThenHead(Var("span", OtherTy), LitStr("msg"))),
           Call({}, PathExpr(FnRes(<<"clippy_utils", "diagnostics", "span_lint_and_sugg">>)),
                AndThenHead(Var("span", OtherTy), LitStr("msg"))
                    \o <<Closure("diag", DiagCall(Var("diag", OtherTy), "help", <<LitStr("h")>>))>>),
           Call({}, PathExpr(LocalRes(None)),
                AndThenHead(Var("span", OtherTy), LitStr("msg"))
                    \o <<Closure("diag", DiagCall(Var("diag", OtherTy), "help", <<LitStr("h")>>))>>),
           DiagCall(Var("diag", OtherTy), "help", <<LitStr("h")>>) }

collapsible_check_expr(expr) ==
    /\ pc = "init"
    /\ LET out == collapsible_check_expr_outcome(expr)
       IN  /\ emitted' = out.emitted
           /\ pc' = IF out.panicked THEN "aborted" ELSE "collapsible_expr"
    /\ lastItem' = expr
    /\ UNCHANGED <<declared_lints, registered_lints, crate_allow, nvisited, locals, symbol_map>>
    /\ UNCHANGED history

NextCollapsible == \E expr \in AndThenCalls : collapsible_check_expr(expr)

SpecCollapsible == InitDefPath /\ [][NextCollapsible]_vars

(***************************************************************************)
(* Reading a span_lint_and_then call.                                      *)
(***************************************************************************)
\* A call span_lint_and_then(cx, lint, span, msg, |diag| ..) whose closure
\* holds, as its only expression or statement, a method call on a variable.
IsAndThenWithOneCall(e) ==
    /\ e.kind = "call"
    /\ e.func = PathExpr(FnRes(SPAN_LINT_AND_THEN))
    /\ Len(e.args) = 5
    /\ e.args[5].kind = "closure"
    /\ peel_blocks_with_stmt(e.args[5].body).kind = "method_call"
    /\ peel_blocks_with_stmt(e.args[5].body).recv.kind = "var"

BodyCall(e) == peel_blocks_with_stmt(e.args[5].body)

SpanQualified == {"span_suggestion", "span_help", "span_note"}
Plain         == {"help", "note"}

\* An expression that performs no call, so that evaluating it has no effect.
RECURSIVE IsEffectFree(_)
IsEffectFree(e) ==
    IF e.kind = "var" THEN TRUE
    ELSE IF e.kind = "field" THEN IsEffectFree(e.base)
    ELSE FALSE

\* How many arguments each method takes.
Arity(name) ==
    IF name = "span_suggestion" THEN 4
    ELSE IF name \in {"span_help", "span_note"} THEN 2
    ELSE 1

Text(e, default) == IF SourceOf(e) = None THEN default ELSE SourceOf(e).val

\* The shorthand call each method collapses into.
Shorthand(e) ==
    LET c    == BodyCall(e)
        head == Text(e.args[1], "cx") \o ", " \o Text(e.args[2], "..") \o ", "
                   \o Text(e.args[3], "span") \o ", " \o Text(e.args[4], "\"...\"") \o ", "
        some == "Some(" \o Text(e.args[3], "span") \o "), "
    IN  IF c.name = "span_suggestion"
        THEN "span_lint_and_sugg(" \o head \o Text(c.args[2], "\"...\"") \o ", "
                \o Text(c.args[3], "..") \o ", "
                \o Text(c.args[4], "Applicability::MachineApplicable") \o ")"
        ELSE IF c.name = "span_help"
        THEN "span_lint_and_help(" \o head \o some \o Text(c.args[2], "\"...\"") \o ")"
        ELSE IF c.name = "help"
        THEN "span_lint_and_help(" \o head \o "None, " \o Text(c.args[1], "\"...\"") \o ")"
        ELSE IF c.name = "span_note"
        THEN "span_lint_and_note(" \o head \o some \o Text(c.args[2], "\"...\"") \o ")"
        ELSE "span_lint_and_note(" \o head \o "None, " \o Text(c.args[1], "\"...\"") \o ")"

CollapsibleDone == pc \in {"collapsible_expr", "aborted"}

(***************************************************************************)
(* C16                                                                     *)
(***************************************************************************)
\* C16: for span_suggestion, span_help and span_note a collapse is reported
\* only if the method's first argument is structurally equal to the third
\* argument of the span_lint_and_then call and neither of the two performs
\* a call; spans that differ, or that could have an effect, give no finding.
C16_SameSpanNoEffect ==
    (/\ CollapsibleDone
     /\ IsAndThenWithOneCall(lastItem)
     /\ BodyCall(lastItem).name \in SpanQualified
     /\ emitted # <<>>) =>
        /\ BodyCall(lastItem).args[1] = lastItem.args[3]
        /\ IsEffectFree(lastItem.args[3])
        /\ IsEffectFree(BodyCall(lastItem).args[1])

\* span_help(expr.span(), ..) inside a diagnostic at expr.span(): the same
\* text on both sides, but a call, and no finding.
C16_Witness ==
    /\ pc = "collapsible_expr"
    /\ IsAndThenWithOneCall(lastItem)
    /\ "COLLAPSIBLE_SPAN_LINT_CALLS" \notin lastItem.allow
    /\ BodyCall(lastItem).name = "span_help"
    /\ Len(BodyCall(lastItem).args) = 2
    /\ BodyCall(lastItem).args[1] = lastItem.args[3]
    /\ ~IsEffectFree(lastItem.args[3])
    /\ emitted = <<>>

\* span_help(expr.span, ..) inside a diagnostic at expr.span was collapsed.
C16_WitnessCollapsed ==
    /\ pc = "collapsible_expr"
    /\ IsAndThenWithOneCall(lastItem)
    /\ BodyCall(lastItem).name = "span_help"
    /\ BodyCall(lastItem).args[1] = lastItem.args[3]
    /\ IsEffectFree(lastItem.args[3])
    /\ Len(emitted) = 1

(***************************************************************************)
(* C17                                                                     *)
(***************************************************************************)
\* C17: a span_lint_and_then call gets at most one finding, and a finding
\* carries the one shorthand of the closure's method: span_suggestion ->
\* span_lint_and_sugg(cx, lint, span, msg, help, sugg, applicability);
\* span_help -> span_lint_and_help(.., Some(span), help); help ->
\* span_lint_and_help(.., None, help); span_note -> span_lint_and_note(..,
\* Some(span), note); note -> span_lint_and_note(.., None, note); a method of
\* another name gets none.  The optional span is Some(<text of the outer
\* span>) exactly for the span-qualified methods.
C17_OneShorthand ==
    CollapsibleDone =>
        /\ Len(emitted) <= 1
        /\ emitted # <<>> =>
              /\ IsAndThenWithOneCall(lastItem)
              /\ BodyCall(lastItem).name \in SpanQualified \cup Plain
              /\ emitted[1].msg = "this call is collapsible"
              /\ emitted[1].sugg =
                    Suggestion("collapse into", Shorthand(lastItem), "MachineApplicable")
        /\ (/\ IsAndThenWithOneCall(lastItem)
            /\ "COLLAPSIBLE_SPAN_LINT_CALLS" \notin lastItem.allow
            /\ Len(BodyCall(lastItem).args) = Arity(BodyCall(lastItem).name)
            /\ \/ BodyCall(lastItem).name \in Plain
               \/ /\ BodyCall(lastItem).name \in SpanQualified
                  /\ BodyCall(lastItem).args[1] = lastItem.args[3]
                  /\ IsEffectFree(lastItem.args[3]))
           => Len(emitted) = 1

\* diag.span_note(expr.span, help_msg) was collapsed with Some(expr.span).
C17_Witness ==
    /\ pc = "collapsible_expr"
    /\ Len(emitted) = 1
    /\ BodyCall(lastItem).name = "span_note"
    /\ emitted[1].sugg.text =
          "span_lint_and_note(cx, TEST_LINT, expr.span, lint_msg, Some(expr.span), help_msg)"

(***************************************************************************)
(* IfChainStyle::check_expr.  A span is described by the macro it expands  *)
(* from (expn) and the invocation of that macro (site); hand-written code  *)
(* has expn "none".                                                        *)
(***************************************************************************)
NoExpn == [expn |-> "none", site |-> "none"]

IfChainExpn(site) == [expn |-> "if_chain", site |-> site]

IfExpr(cond, then, els, sp, parent, else_clause) ==
    [kind |-> "if", cond |-> cond, then |-> then, els |-> els,
     expn |-> sp.expn, site |-> sp.site, parent |-> parent, else_clause |-> else_clause]

Cond(op, multiline) ==
    [kind |-> "binary", op |-> op, left |-> Var("a", OtherTy), right |-> Var("b", OtherTy),
     multiline |-> multiline]

PlainExpr(name, sp) == [kind |-> "var", name |-> name, ty |-> OtherTy, expn |-> sp.expn, site |-> sp.site]

IfStmt(kind, e, multiline, sp) ==
    [kind |-> kind, expr |-> e, multiline |-> multiline, expn |-> sp.expn, site |-> sp.site]

\* the nearest ancestor that is neither a block expression nor a statement
ParentNode(kind, sp) == [kind |-> kind, expn |-> sp.expn, site |-> sp.site]

\* higher::IfOrIfLet::hir
IfOrIfLet_hir(expr) ==
    IF expr.kind = "if"
    THEN Some([cond |-> expr.cond, then |-> expr.then, else |-> expr.els])
    ELSE None

is_multiline_Never(node) == FALSE

is_multiline(node) == node.multiline

is_else_clause(if_expr) == if_expr.else_clause

\* the head statements and the tail of a then block
HeadAndTail(then_block) ==
    LET stmts == then_block.stmts
    IN  IF then_block.expr # None
        THEN Some([head |-> stmts, tail |-> then_block.expr.val])
        ELSE IF Len(stmts) > 0 /\ stmts[Len(stmts)].kind \in {"expr", "semi"}
        THEN Some([head |-> SubSeq(stmts, 1, Len(stmts) - 1), tail |-> stmts[Len(stmts)].expr])
        ELSE None

SpanTo(a, b) == [kind |-> "to", lo |-> a, hi |-> b]

SpanHelp(sp, msg) == [kind |-> "span_help", span |-> sp, msg |-> msg]

NestedHelp_FirstOnly(head) ==
    IF Len(head) = 0 THEN None
    ELSE SpanHelp(SpanOfExpr(head[1]), "this 'let' statement can also be in the 'if_chain!'")

\* the closure handed to span_lint_and_then
NestedHelp(head) ==
    IF Len(head) = 0 THEN None
    ELSE IF Len(head) = 1
    THEN SpanHelp(SpanOfExpr(head[1]), "this 'let' statement can also be in the 'if_chain!'")
    ELSE SpanHelp(SpanTo(SpanOfExpr(head[1]), SpanOfExpr(head[Len(head)])),
                  "these 'let' statements can also be in the 'if_chain!'")

check_nested_if_chains(if_expr, then_block, if_chain_span) ==
    LET ht == HeadAndTail(then_block)
    IN  IF ht = None THEN <<>>
        ELSE LET head == ht.val.head
                 tail == ht.val.tail
                 inner == is_expn_of(tail, "if_chain")
             IN  IF ~ /\ IfOrIfLet_hir(tail) # None
                      /\ IfOrIfLet_hir(tail).val.else = None
                      /\ \A i \in 1..Len(head) :
                            head[i].kind = "local" /\ ~is_multiline(head[i])
                      /\ (if_chain_span # None \/ ~is_else_clause(if_expr))
                 THEN <<>>
                 ELSE IF if_chain_span = None /\ inner # None
                 THEN <<Finding("IF_CHAIN_STYLE", SpanOfExpr(if_expr),
                                "this 'if' can be part of the inner 'if_chain!'",
                                NestedHelp(head), None)>>
                 ELSE IF if_chain_span # None /\ inner = None
                 THEN <<Finding("IF_CHAIN_STYLE", SpanOfExpr(tail),
                                "this 'if' can be part of the outer 'if_chain!'",
                                NestedHelp(head), None)>>
                 ELSE IF if_chain_span # None /\ inner # None /\ if_chain_span.val # inner.val
                 THEN <<Finding("IF_CHAIN_STYLE", inner.val,
                                "this 'if_chain!' can be merged with the outer 'if_chain!'",
                                NestedHelp(head), None)>>
                 ELSE <<>>

is_first_if_chain_expr_Never(node, if_chain_span) == FALSE

is_first_if_chain_expr(node, if_chain_span) ==
    IF node.parent = None THEN FALSE
    ELSE is_expn_of(node.parent.val, "if_chain") # Some(if_chain_span)

is_if_chain_then_Never(stmts, expr, if_chain_span) == FALSE

is_if_chain_then(stmts, expr, if_chain_span) ==
    IF Len(stmts) = 0 /\ expr = None THEN TRUE
    ELSE LET node == IF Len(stmts) > 0 THEN stmts[1] ELSE expr.val
         IN  is_expn_of(node, "if_chain") = None
                \/ is_expn_of(node, "if_chain").val # if_chain_span

if_chain_check_expr_findings(expr) ==
    IF IfOrIfLet_hir(expr) = None THEN <<>>
    ELSE LET parts == IfOrIfLet_hir(expr).val
             els == parts.else # None
         IN  IF parts.then.kind # "block" THEN <<>>
             ELSE LET then_block == parts.then
                      if_chain_span == is_expn_of(expr, "if_chain")
                      nested == IF ~els
                                THEN check_nested_if_chains(expr, then_block, if_chain_span)
                                ELSE <<>>
                  IN  IF if_chain_span = None THEN nested
                      ELSE nested
                           \o (IF /\ parts.cond.kind = "binary"
                                  /\ parts.cond.op = "&&"
                                  /\ is_multiline(parts.cond)
                               THEN <<span_lint("IF_CHAIN_STYLE", SpanOfExpr(parts.cond),
                                                "'if a && b;' should be 'if a; if b;'")>>
                               ELSE <<>>)
                           \o (IF /\ is_first_if_chain_expr(expr, if_chain_span.val)
                                  /\ is_if_chain_then(then_block.stmts, then_block.expr,
                                                      if_chain_span.val)
                               THEN <<span_lint("IF_CHAIN_STYLE", SpanOfExpr(expr),
                                                "'if_chain!' only has one 'if'")>>
                               ELSE <<>>)

\* The conditionals the lint pass is handed.
ChainSites == {"m1", "m2"}

OuterExpns == {NoExpn, IfChainExpn("m1")}

InnerExpns == {NoExpn} \cup { IfChainExpn(s) : s \in ChainSites }

ParentNodes == { ParentNode("item", NoExpn), ParentNode("if", IfChainExpn("m1")),
                 ParentNode("if", IfChainExpn("m2")) }

Conds == { Var("a", OtherTy), Cond("&&", TRUE), Cond("&&", FALSE), Cond("==", TRUE) }

Body == Block(<<>>, Some(PlainExpr("c", NoExpn)))

InnerIfs ==
    { IfExpr(Var("b", OtherTy), Body, els, sp, None, FALSE) :
        els \in {None, Some(Body)}, sp \in InnerExpns }

Tails == InnerIfs \cup { PlainExpr("c", sp) : sp \in OuterExpns }

Heads ==
    { <<>>,
      <<IfStmt("local", None, FALSE, NoExpn)>>,
      <<IfStmt("local", None, FALSE, IfChainExpn("m1"))>>,
      <<IfStmt("local", None, FALSE, NoExpn), IfStmt("local", None, FALSE, NoExpn)>>,
      <<IfStmt("local", None, TRUE, NoExpn)>>,
      <<IfStmt("item", None, FALSE, NoExpn)>> }

ThenBlocks ==
    { Block(h, Some(t)) : h \in Heads, t \in Tails }
    \cup { Block(h \o <<IfStmt(k, t, FALSE, NoExpn)>>, None) :
            h \in Heads, t \in Tails, k \in {"semi", "expr"} }
    \cup { Block(h, None) : h \in Heads }

IfChainExprs ==
    { IfExpr(c, t, els, sp, Some(p), ec) :
        c \in Conds, t \in ThenBlocks, els \in {None, Some(Body)}, sp \in OuterExpns,
        p \in ParentNodes, ec \in BOOLEAN }
    \cup { PlainExpr("c", NoExpn) }

\* A block with its span and its nearest ancestor that is no block or statement.
BlockNode(stmts, expr, sp, parent) ==
    [kind |-> "block", stmts |-> stmts, expr |-> expr, expn |-> sp.expn, site |-> sp.site,
     parent |-> parent]

\* span.ctxt(): the expansion a span was produced by
ctxt(node) == [expn |-> node.expn, site |-> node.site]

\* Lines 1507-1522: the span of 'let x = ..;' in the if_chain! call.
if_chain_local_span(local, if_chain_span) ==
    [kind |-> "local", of |-> local, call |-> if_chain_span]

\* IfChainStyle::check_block, lines 1376-1397.
if_chain_check_block_findings(block) ==
    IF ~(Len(block.stmts) > 0 /\ block.stmts[1].kind = "local") THEN <<>>
    ELSE IF is_expn_of(block, "if_chain") = None THEN <<>>
    ELSE LET local == block.stmts[1]
             after == Tail(block.stmts)
             if_chain_span == is_expn_of(block, "if_chain").val
         IN  IF is_first_if_chain_expr(block, if_chain_span)
             THEN <<span_lint("IF_CHAIN_STYLE", if_chain_local_span(local, if_chain_span),
                              "'let' expression should be above the 'if_chain!'")>>
             ELSE IF ctxt(local) = ctxt(block) /\ is_if_chain_then(after, block.expr, if_chain_span)
             THEN <<span_lint("IF_CHAIN_STYLE", if_chain_local_span(local, if_chain_span),
                              "'let' expression should be inside 'then { .. }'")>>
             ELSE <<>>

\* The blocks the lint pass is handed.
FirstStmts ==
    { IfStmt("local", None, FALSE, sp) : sp \in InnerExpns }
    \cup { IfStmt("item", None, FALSE, NoExpn), IfStmt("semi", PlainExpr("c", NoExpn), FALSE, NoExpn) }

AfterStmts ==
    { <<>>,
      <<IfStmt("local", None, FALSE, IfChainExpn("m1"))>>,
      <<IfStmt("semi", PlainExpr("c", NoExpn), FALSE, NoExpn)>>,
      <<IfStmt("semi", PlainExpr("c", NoExpn), FALSE, IfChainExpn("m2"))>> }

BlockExprs == { None } \cup { Some(PlainExpr("c", sp)) : sp \in InnerExpns }

IfChainBlocks ==
    { BlockNode(<<f>> \o a, e, sp, Some(p)) :
        f \in FirstStmts, a \in AfterStmts, e \in BlockExprs, sp \in OuterExpns,
        p \in ParentNodes }
    \cup { BlockNode(<<>>, e, sp, Some(p)) :
        e \in BlockExprs, sp \in OuterExpns, p \in ParentNodes }

if_chain_check_block(block) ==
    /\ pc = "init"
    /\ pc' = "if_chain_block"
    /\ lastItem' = block
    /\ emitted' = if_chain_check_block_findings(block)
    /\ UNCHANGED <<declared_lints, registered_lints, crate_allow, nvisited, locals, symbol_map>>
    /\ UNCHANGED history

if_chain_check_expr(expr) ==
    /\ pc = "init"
    /\ pc' = "if_chain_expr"
    /\ lastItem' = expr
    /\ emitted' = if_chain_check_expr_findings(expr)
    /\ UNCHANGED <<declared_lints, registered_lints, crate_allow, nvisited, locals, symbol_map>>
    /\ UNCHANGED history

IfChainExpr == \E expr \in IfChainExprs : if_chain_check_expr(expr)

IfChainBlock == \E block \in IfChainBlocks : if_chain_check_block(block)

NextIfChain == IfChainExpr \/ IfChainBlock

SpecIfChain == InitDefPath /\ [][NextIfChain]_vars

(***************************************************************************)
(* Reading the conditional the chain pass was handed.                      *)
(***************************************************************************)
IfChainDone == pc = "if_chain_expr"

\* 'if A { if B { C } }': no statements before the inner conditional and no
\* alternative branch on either conditional
IsBareNestedIf ==
    /\ IfChainDone
    /\ lastItem.kind = "if"
    /\ lastItem.els = None
    /\ lastItem.then.stmts = <<>>
    /\ lastItem.then.expr # None
    /\ lastItem.then.expr.val.kind = "if"
    /\ lastItem.then.expr.val.els = None

InnerIf == lastItem.then.expr.val

FromIfChain(node) == node.expn = "if_chain"

SameInvocation(a, b) == FromIfChain(a) /\ FromIfChain(b) /\ a.site = b.site

\* the outer conditional opens its if_chain! and the inner one is not a clause of it
WrapsOneIf ==
    /\ FromIfChain(lastItem)
    /\ ~SameInvocation(lastItem.parent.val, lastItem)
    /\ ~SameInvocation(InnerIf, lastItem)

PointlessWrapping == SelectSeq(emitted, LAMBDA f : f.msg = "'if_chain!' only has one 'if'")

MergeableMessages ==
    { "this 'if' can be part of the inner 'if_chain!'",
      "this 'if' can be part of the outer 'if_chain!'",
      "this 'if_chain!' can be merged with the outer 'if_chain!'" }

Mergeable == SelectSeq(emitted, LAMBDA f : f.msg \in MergeableMessages)

\* C18 as stated, read for an if_chain! that wraps the nested conditional: one
\* "pointless wrapping" finding and no "mergeable" finding.
C18_AsStated ==
    (IsBareNestedIf /\ WrapsOneIf) => (Len(PointlessWrapping) = 1 /\ Len(Mergeable) = 0)

\* C18 (amended): for 'if A { if B { C } }' with no intervening statements and
\* no alternative branches, "pointless wrapping" is reported exactly when the
\* outer conditional opens an if_chain! the inner conditional is not a clause
\* of, and then exactly one "mergeable" finding is reported with it; the two
\* are not exclusive.  Without such a wrapping the pair is reported as
\* mergeable exactly when the two conditionals differ in their if_chain!
\* invocation and the outer one is in a chain or is not an else clause.
C18_BothReported ==
    IsBareNestedIf =>
        /\ Len(PointlessWrapping) = (IF WrapsOneIf THEN 1 ELSE 0)
        /\ WrapsOneIf => Len(Mergeable) = 1
        /\ Len(Mergeable) =
             (IF /\ ~(FromIfChain(lastItem) = FromIfChain(InnerIf)
                        /\ (FromIfChain(lastItem) => SameInvocation(lastItem, InnerIf)))
                 /\ (FromIfChain(lastItem) \/ ~lastItem.else_clause)
              THEN 1 ELSE 0)

C18_Witness ==
    /\ IsBareNestedIf
    /\ WrapsOneIf
    /\ ~FromIfChain(InnerIf)
    /\ Len(PointlessWrapping) = 1
    /\ Len(Mergeable) = 1
    /\ Mergeable[1].msg = "this 'if' can be part of the outer 'if_chain!'"

(***************************************************************************)
(* The passes that suggest rewrites, run on one crate.                     *)
(***************************************************************************)
NextRewrite == NextDefPath \/ NextSym \/ NextCollapsible

SpecRewrite == InitDefPath /\ [][NextRewrite]_vars

(***************************************************************************)
(* Reading a suggested rewrite back as an expression: the expressions the  *)
(* suggestions of a pass can spell, of which the one that prints as the    *)
(* suggested text is the rewrite.                                          *)
(***************************************************************************)
ChildrenOf(e) ==
    IF e.kind = "call" THEN {e.func} \cup { e.args[i] : i \in 1..Len(e.args) }
    ELSE IF e.kind = "method_call" /\ "recv" \in DOMAIN e
    THEN {e.recv} \cup { e.args[i] : i \in 1..Len(e.args) }
    ELSE IF e.kind = "field" THEN {e.base}
    ELSE IF e.kind = "binary" THEN {e.left, e.right}
    ELSE IF e.kind = "closure" THEN {e.body}
    ELSE IF e.kind \in {"unary", "addr_of"} THEN {e.inner}
    ELSE IF e.kind = "block"
    THEN { e.stmts[i].expr : i \in { j \in 1..Len(e.stmts) : e.stmts[j].kind = "semi" } }
         \cup (IF e.expr = None THEN {} ELSE {e.expr.val})
    ELSE {}

RECURSIVE Nodes(_)
Nodes(e) == {e} \cup UNION { Nodes(c) : c \in ChildrenOf(e) }

Quotable(e) == SourceOf(e) # None

FnPath(path) == PathExpr(FnRes(path))

Method(recv, name, args) == MethodCall(recv, name, args, Some(<<"rustc_middle", name>>), OtherTy)

SomeOf(e) == Call({}, FnPath(<<"core", "option", "Option", "Some">>), <<e>>)

LangRequire(cx, name) ==
    Method(Method(Method(FieldAccess(cx, "tcx", OtherTy), "lang_items", <<>>),
                  "require", <<NamedPath("LangItem::" \o name)>>),
           "ok", <<>>)

PathRes(cx, def) == Call({}, FnPath(<<"clippy_utils", "path_res">>), <<cx, def>>)

ItemNames == { n.val : n \in (DiagNames \cup LangNames) \ {None} }

\* what the rewrites of a def-path call can spell
DefPathRewrites(expr) ==
    LET cx  == expr.args[1]
        def == expr.args[2]
    IN  UNION {
          LET sym  == NamedPath("sym::" \o n)
              lang == NamedPath("LangItem::" \o n)
          IN  { Method(FieldAccess(cx, "tcx", OtherTy), "is_diagnostic_item", <<sym, def>>),
                Binary("==", LangRequire(cx, n), SomeOf(def)),
                Call(expr.allow, FnPath(<<"clippy_utils", "is_trait_method">>), <<cx, def, sym>>),
                Call(expr.allow, FnPath(<<"clippy_utils", "ty", "is_type_diagnostic_item">>),
                     <<cx, def, sym>>),
                Call(expr.allow, FnPath(<<"clippy_utils", "ty", "is_type_lang_item">>),
                     <<cx, def, lang>>),
                Call(expr.allow, FnPath(<<"clippy_utils", "is_path_diagnostic_item">>),
                     <<cx, def, sym>>),
                Call(expr.allow, FnPath(<<"clippy_utils", "is_res_diag_ctor">>),
                     <<cx, PathRes(cx, def), sym>>),
                Call(expr.allow, FnPath(<<"clippy_utils", "is_res_lang_ctor">>),
                     <<cx, PathRes(cx, def), lang>>),
                Method(Method(PathRes(cx, def), "opt_def_id", <<>>), "map_or",
                       << Var("false", OtherTy),
                          Closure("id", Binary("==", LangRequire(cx, n),
                                               SomeOf(Var("id", OtherTy)))) >>) }
          : n \in ItemNames }

\* the handles a comparison of symbol strings can be rewritten to
SymbolHandles(expr) ==
    LET operands == IF expr.kind = "binary" THEN {expr.left, expr.right} ELSE {}
        recvs == { Unborrowed(o).recv :
                     o \in { p \in operands : Unborrowed(p).kind = "method_call" } }
    IN  recvs
        \cup { FieldAccess(r, "name", SymbolTy) : r \in recvs }
        \cup { ConstPath(def_path_str(symbol_map[k]), SymbolTy) : k \in DOMAIN symbol_map }

AsStr(h) ==
    MethodCall(h, "as_str", <<>>,
               Some(IF expr_ty(h) = IdentTy THEN IDENT_AS_STR ELSE SYMBOL_AS_STR), StrRefTy)

\* what the rewrites of the symbol pass can spell
SymbolRewrites(expr) ==
    LET hs == SymbolHandles(expr)
    IN  hs
        \cup { AsStr(h) : h \in hs }
        \cup (IF expr.kind = "binary"
              THEN { Binary(expr.op, l, r) : l \in hs, r \in hs } ELSE {})

\* what the collapse of a span_lint_and_then call can spell
CollapsedCalls(expr) ==
    LET head == SubSeq(expr.args, 1, 4)
        body == BodyCall(expr)
        args == { body.args[i] : i \in 1..Len(body.args) }
        opts == { NamedPath("None"), SomeOf(expr.args[3]) }
        tails == { <<o, m>> : o \in opts, m \in args }
                 \cup (IF Len(body.args) = 4 THEN { SubSeq(body.args, 2, 4) } ELSE {})
    IN  { Call(expr.allow, FnPath(<<"clippy_utils", "diagnostics", f>>), head \o t) :
            f \in {"span_lint_and_sugg", "span_lint_and_help", "span_lint_and_note"},
            t \in tails }

Rewrites ==
    IF pc = "expr" THEN DefPathRewrites(lastItem)
    ELSE IF pc = "sym_expr" THEN SymbolRewrites(lastItem)
    ELSE IF pc = "collapsible_expr" THEN CollapsedCalls(lastItem)
    ELSE {}

\* the source text the suggestion quotes is there to quote
Quoted ==
    IF pc = "expr" THEN Quotable(lastItem.args[1]) /\ Quotable(lastItem.args[2])
    ELSE IF pc = "sym_expr" THEN \A n \in Nodes(lastItem) : n.kind # "opaque"
    ELSE IF pc = "collapsible_expr"
    THEN /\ \A i \in 1..4 : Quotable(lastItem.args[i])
         /\ \A i \in 1..Len(BodyCall(lastItem).args) : Quotable(BodyCall(lastItem).args[i])
    ELSE FALSE

Parses(f) == { r \in Rewrites : SourceOf(r) = Some(f.sugg.text) }

\* the visited expression with the flagged span replaced by r
Replaced(f, r) ==
    IF lastItem.kind = "binary" /\ f.span = SpanOfExpr(lastItem.left) /\ f.span # SpanOfExpr(lastItem)
    THEN [lastItem EXCEPT !.left = r]
    ELSE IF lastItem.kind = "binary" /\ f.span = SpanOfExpr(lastItem.right)
    THEN [lastItem EXCEPT !.right = r]
    ELSE r

\* the pass that flagged the expression, run again on n
Rerun(n) ==
    IF pc = "expr" THEN def_path_check_expr(n).emitted
    ELSE IF pc = "sym_expr" THEN interning_check_expr_findings(symbol_map, n)
    ELSE collapsible_check_expr_outcome(n).emitted

\* the rewritten expression and the expressions the rewrite brought in
RewrittenNodes(e) == {e} \cup (Nodes(e) \ Nodes(lastItem))

IsRewrite(f) == f.sugg # None /\ Quoted

\* C15: a suggested rewrite whose text quotes available source reads back as
\* an expression, and the pass that suggested it, run again on the expression
\* rewritten and on every expression the rewrite brought in, reports nothing:
\* for the def-path pass, the symbol pass (interning and comparison) and the
\* collapsible-call pass.
C15_Idempotent ==
    \A i \in 1..Len(emitted) :
        IsRewrite(emitted[i]) =>
            /\ Parses(emitted[i]) # {}
            /\ \A r \in Parses(emitted[i]) :
                 \A n \in RewrittenNodes(Replaced(emitted[i], r)) : Rerun(n) = <<>>

C15_Witness ==
    /\ pc = "sym_expr"
    /\ Len(emitted) = 1
    /\ emitted[1].msg = "unnecessary string allocation"
    /\ IsRewrite(emitted[1])
    /\ \E r \in Parses(emitted[1]) :
         /\ Replaced(emitted[1], r).kind = "binary"
         /\ Replaced(emitted[1], r) # lastItem
         /\ Replaced(emitted[1], r).left.kind = "method_call"
         /\ Replaced(emitted[1], r).left.name = "as_str"

(***************************************************************************)
(* Reading the block the chain pass was handed.                            *)
(***************************************************************************)
IfChainBlockDone == pc = "if_chain_block"

StartsWithLet == Len(lastItem.stmts) > 0 /\ lastItem.stmts[1].kind = "local"

\* the block opens its if_chain!: the nearest ancestor that is no block or
\* statement is not of the same invocation
IsFirstOfChain == ~SameInvocation(lastItem.parent.val, lastItem)

\* what follows the binding is not of the block's invocation: the then region
FollowersInThen ==
    IF Len(lastItem.stmts) > 1 THEN ~SameInvocation(lastItem.stmts[2], lastItem)
    ELSE IF lastItem.expr # None THEN ~SameInvocation(lastItem.expr.val, lastItem)
    ELSE TRUE

SameContext(a, b) == a.expn = b.expn /\ a.site = b.site

LetAbove  == SelectSeq(emitted, LAMBDA f : f.msg = "'let' expression should be above the 'if_chain!'")

LetInside == SelectSeq(emitted, LAMBDA f : f.msg = "'let' expression should be inside 'then { .. }'")

\* C21: a block of an if_chain! expansion that starts with a 'let' gets "above"
\* exactly when it opens the invocation, and otherwise "inside then" exactly when
\* the binding has the block's expansion context and what follows it is the
\* then region; never both; any other block gets nothing.
C21_LetMisplacement ==
    IfChainBlockDone =>
        /\ Len(emitted) <= 1
        /\ Len(emitted) = Len(LetAbove) + Len(LetInside)
        /\ Len(LetAbove) = 1 <=>
              (FromIfChain(lastItem) /\ StartsWithLet /\ IsFirstOfChain)
        /\ Len(LetInside) = 1 <=>
              (/\ FromIfChain(lastItem) /\ StartsWithLet /\ ~IsFirstOfChain
               /\ SameContext(lastItem.stmts[1], lastItem) /\ FollowersInThen)

C21_Witness ==
    /\ IfChainBlockDone
    /\ FromIfChain(lastItem)
    /\ StartsWithLet
    /\ ~IsFirstOfChain
    /\ Len(lastItem.stmts) > 1
    /\ Len(LetInside) = 1
    /\ Len(LetAbove) = 0

(***************************************************************************)
(* C22, C23: the nested conditional and the statements before it.          *)
(***************************************************************************)
HasThenBlock == lastItem.kind = "if" /\ lastItem.then.kind = "block"

\* the last element of the then block: its trailing expression, else its last
\* statement when that is an expression statement
LastElement ==
    LET b == lastItem.then
    IN  IF b.expr # None THEN b.expr
        ELSE IF Len(b.stmts) > 0 /\ b.stmts[Len(b.stmts)].kind \in {"expr", "semi"}
        THEN Some(b.stmts[Len(b.stmts)].expr)
        ELSE None

\* the statements before the last element
Preceding ==
    LET b == lastItem.then
    IN  IF b.expr # None THEN b.stmts ELSE SubSeq(b.stmts, 1, Len(b.stmts) - 1)

IsSingleLineLet(stmt) == stmt.kind = "local" /\ ~stmt.multiline

\* which of the two conditionals come from an if_chain!
Situation(outer, inner) ==
    IF ~FromIfChain(outer) /\ FromIfChain(inner) THEN "inner chain"
    ELSE IF FromIfChain(outer) /\ ~FromIfChain(inner) THEN "outer chain"
    ELSE IF FromIfChain(outer) /\ FromIfChain(inner) /\ outer.site # inner.site THEN "two chains"
    ELSE "none"

MessageOf(situation) ==
    IF situation = "inner chain" THEN "this 'if' can be part of the inner 'if_chain!'"
    ELSE IF situation = "outer chain" THEN "this 'if' can be part of the outer 'if_chain!'"
    ELSE "this 'if_chain!' can be merged with the outer 'if_chain!'"

\* C22: a "mergeable" finding is reported only for a conditional without else
\* whose then block ends in a conditional without else, preceded by single-line
\* 'let' statements only, where one of the two conditionals, or each of them in
\* an invocation of its own, comes from an if_chain!; its message names which.
C22_MergeableOnlyIf ==
    (IfChainDone /\ Len(Mergeable) > 0) =>
        /\ Len(Mergeable) = 1
        /\ HasThenBlock
        /\ lastItem.els = None
        /\ LastElement # None
        /\ LastElement.val.kind = "if"
        /\ LastElement.val.els = None
        /\ \A i \in 1..Len(Preceding) : IsSingleLineLet(Preceding[i])
        /\ Situation(lastItem, LastElement.val) # "none"
        /\ Mergeable[1].msg = MessageOf(Situation(lastItem, LastElement.val))

C22_Witness ==
    /\ IfChainDone
    /\ Len(Mergeable) = 1
    /\ Situation(lastItem, LastElement.val) = "two chains"
    /\ Len(Preceding) = 2
    /\ lastItem.then.expr = None

FallbackItems == { lang_items[i] : i \in 1..Len(lang_items) }
                 \cup { incoherent_impls[i] : i \in 1..Len(incoherent_impls) }

IsPrefixOf(prefix, path) ==
    Len(prefix) <= Len(path) /\ \A i \in 1..Len(prefix) : prefix[i] = path[i]

ChildNames(d) ==
    IF d.def_kind \in {"Mod", "Enum", "Trait"} THEN d.module_children ELSE d.associated_items

\* the def path of d followed by the name of one child of d
NamesChildOf(path, d) ==
    /\ IsPrefixOf(d.def_path, path)
    /\ Len(path) = Len(d.def_path) + 1
    /\ path[Len(path)] \in ChildNames(d)

\* C24: check_path holds of a path exactly when the path resolves, or is the def
\* path of a lang item or incoherent impl followed by one segment naming a
\* child of it; with no or with several segments after every such prefix, a
\* path that does not resolve is refused.
C24_CheckPath ==
    (pc = "paths_item" /\ IsPathsConstant(lastItem)) =>
        LET path == PathOf(lastItem)
        IN  /\ check_path(path) <=>
                  (PrimaryResolves(path) \/ \E d \in FallbackItems : NamesChildOf(path, d))
            /\ (/\ ~PrimaryResolves(path)
                /\ \A d \in FallbackItems :
                      IsPrefixOf(d.def_path, path) => Len(path) # Len(d.def_path) + 1)
                  => ~check_path(path)
            /\ (emitted = <<>>) <=> check_path(path)

\* A path two segments past the def path of a lang item, whose first extra
\* segment names a child, was refused.
C24_Witness ==
    /\ pc = "paths_item"
    /\ IsPathsConstant(lastItem)
    /\ ~PrimaryResolves(PathOf(lastItem))
    /\ \E d \in FallbackItems :
          /\ IsPrefixOf(d.def_path, PathOf(lastItem))
          /\ Len(PathOf(lastItem)) = Len(d.def_path) + 2
          /\ PathOf(lastItem)[Len(d.def_path) + 1] \in ChildNames(d)
    /\ Len(emitted) = 1

(***************************************************************************)
(* C25                                                                     *)
(***************************************************************************)
\* a step of check_item: one more item visited
IsVisit == nvisited' = nvisited + 1

HasQualifiedPath(item) ==
    \E i \in 1..Len(item.get_lints) : Len(item.get_lints[i]) > 1

\* C25 as stated: every visit of a group registration adds the identifiers of
\* its single-segment paths to the registered set, and no other visit changes
\* the set.
C25_AsStated ==
    [][IsVisit =>
         registered_lints' =
            registered_lints
              \cup (IF IsGroupRegistration(lastItem') THEN NamedBy(lastItem') ELSE {})]_vars

\* C25 (amended): a visit of a group registration at which neither DEFAULT_LINT
\* nor DEFAULT_DEPRECATION_REASON is allowed adds exactly the identifiers of the
\* single-segment paths of its get_lints body to the registered set; every
\* other step leaves the set as it is, so the set only grows.
C25_RegisteredSet ==
    [][/\ IsVisit =>
            registered_lints' =
               registered_lints
                 \cup (IF IsGroupRegistration(lastItem') /\ ~Suppressed(lastItem')
                       THEN NamedBy(lastItem') ELSE {})
       /\ ~IsVisit => registered_lints' = registered_lints]_vars

\* A registration naming LINT_B bare and LINT_A through a qualified path was
\* visited after LINT_A had been registered.
C25_Witness ==
    /\ pc = "visiting"
    /\ IsGroupRegistration(lastItem)
    /\ ~Suppressed(lastItem)
    /\ HasQualifiedPath(lastItem)
    /\ NamedBy(lastItem) = {"LINT_B"}
    /\ registered_lints = {"LINT_A", "LINT_B"}

(***************************************************************************)
(* C26                                                                     *)
(***************************************************************************)
\* the children of the keyword module and of the symbol module
SymbolModuleChildren(world) ==
    (IF world.kw = None THEN {} ELSE { world.kw.val[i] : i \in 1..Len(world.kw.val) })
    \cup (IF world.sym = None THEN {} ELSE { world.sym.val[i] : i \in 1..Len(world.sym.val) })

\* a constant of the interned-symbol type that evaluates to a u32 scalar
IsSymbolConstant(child) ==
    /\ child.res_kind = "Const"
    /\ child.ty = SymbolTy
    /\ child.value # None
    /\ child.value.kind = "scalar"
    /\ child.value.ok

\* C26: every entry of the symbol index maps the u32 value of a constant of a
\* symbol module, of the interned-symbol type and evaluating to a scalar, to
\* that constant; a child that is no such constant is the value of no entry.
C26_IndexEntries ==
    /\ \A k \in DOMAIN symbol_map :
          \E world \in SymWorlds : \E child \in SymbolModuleChildren(world) :
              /\ IsSymbolConstant(child)
              /\ child.value.bits = k
              /\ symbol_map[k] = ConstDefId(child)
    /\ \A world \in SymWorlds : \A child \in SymbolModuleChildren(world) :
          ~IsSymbolConstant(child) =>
              \A k \in DOMAIN symbol_map : symbol_map[k] # ConstDefId(child)

\* The index was built from modules with a function, a constant of another
\* type, a constant that is no scalar and one that is no u32 among the children.
C26_Witness ==
    /\ pc = "sym_crate"
    /\ symbol_map # EmptyMap
    /\ symbol_map = check_crate_map(EmptyMap, lastItem.world)
    /\ \E c \in SymbolModuleChildren(lastItem.world) : c.res_kind = "Fn"
    /\ \E c \in SymbolModuleChildren(lastItem.world) : c.res_kind = "Const" /\ c.ty # SymbolTy
    /\ \E c \in SymbolModuleChildren(lastItem.world) :
          c.res_kind = "Const" /\ c.ty = SymbolTy /\ c.value.kind # "scalar"
    /\ \E c \in SymbolModuleChildren(lastItem.world) :
          c.res_kind = "Const" /\ c.ty = SymbolTy /\ c.value.kind = "scalar" /\ ~c.value.ok
    /\ Cardinality(DOMAIN symbol_map) = 3

(***************************************************************************)
(* ClippyLintsInternal::check_crate, an early pass over the AST.           *)
(***************************************************************************)
\* The identifiers of the constants in the order str compares them (by
\* bytes: a prefix first, upper case before lower case).
IdentOrder == << "DEREF", "OPTION", "OPTION_SOME", "VEC", "vec" >>

IdentRank(s) == CHOOSE i \in 1..Len(IdentOrder) : IdentOrder[i] = s

\* `*last_name > *name` of two identifiers
str_gt(a, b) == IdentRank(a) > IdentRank(b)

\* ast::Item: its name, its kind, and the items of a loaded module (None for
\* anything else); span tells items of one module apart.
AstItem(ident, item_kind, items, span) ==
    [kind |-> "ast_item", ident |-> ident, item_kind |-> item_kind, items |-> items,
     span |-> span]

AstCrate(items) == [kind |-> "ast_crate", allow |-> {}, items |-> items]

\* items.iter().find(|item| item.ident.name.as_str() == name)
find_item(items, name) ==
    IF \E i \in 1..Len(items) : items[i].ident = name
    THEN Some(items[CHOOSE i \in 1..Len(items) :
                      /\ items[i].ident = name
                      /\ \A j \in 1..(i - 1) : items[j].ident # name])
    ELSE None

IsLoadedMod(item) == item.item_kind = "Mod" /\ item.items # None

ordering_finding(item) ==
    span_lint("CLIPPY_LINTS_INTERNAL", item.span,
              "this constant should be before the previous constant due to lexical ordering")

ordering_findings_MaxSoFar(items) ==
    LET F[i \in 0..Len(items)] ==
            IF i = 0 THEN <<>>
            ELSE IF \E j \in 1..(i - 1) : str_gt(items[j].ident, items[i].ident)
                 THEN Append(F[i - 1], ordering_finding(items[i]))
                 ELSE F[i - 1]
    IN  F[Len(items)]

\* Lines 395-408: the loop over the items of the paths module; last_name is
\* the name of the item before.
ordering_findings(items) ==
    LET F[i \in 0..Len(items)] ==
            IF i = 0 THEN <<>>
            ELSE IF i > 1 /\ str_gt(items[i - 1].ident, items[i].ident)
                 THEN Append(F[i - 1], ordering_finding(items[i]))
                 ELSE F[i - 1]
    IN  F[Len(items)]

\* Lines 390-412.
internal_check_crate_findings(krate) ==
    LET utils == find_item(krate.items, "utils")
    IN  IF utils = None \/ ~IsLoadedMod(utils.val) THEN <<>>
        ELSE LET paths == find_item(utils.val.items.val, "paths")
             IN  IF paths = None \/ ~IsLoadedMod(paths.val) THEN <<>>
                 ELSE ordering_findings(paths.val.items.val)

\* The crates the pass is run on.
ConstItems(names) == [i \in 1..Len(names) |-> AstItem(names[i], "Const", None, <<"paths", i>>)]

IdentNames == { IdentOrder[i] : i \in 1..Len(IdentOrder) }

ConstNameLists ==
    { <<>> } \cup { <<a>> : a \in IdentNames }
    \cup { <<a, b>> : a \in IdentNames, b \in IdentNames }
    \cup { <<a, b, c>> : a \in {"DEREF", "OPTION_SOME", "vec"}, b \in IdentNames,
                         c \in {"OPTION", "OPTION_SOME", "VEC"} }

PathsMods ==
    { AstItem("paths", "Mod", Some(ConstItems(ns)), <<"utils", "paths">>) : ns \in ConstNameLists }

UtilsContents ==
    { <<p>> : p \in PathsMods }
    \cup { << AstItem("sugg", "Mod", Some(ConstItems(<<"VEC", "DEREF">>)), <<"utils", "sugg">>), p >> :
             p \in PathsMods }
    \cup { << AstItem("paths", "Fn", None, <<"utils", "fn">>), p >> : p \in PathsMods }
    \cup { <<>>, << AstItem("paths", "Mod", None, <<"utils", "paths">>) >> }

UtilsMods == { AstItem("utils", "Mod", Some(c), <<"utils">>) : c \in UtilsContents }

AstCrates ==
    { AstCrate(<<u>>) : u \in UtilsMods }
    \cup { AstCrate(<< AstItem("lints", "Mod", Some(<<>>), <<"lints">>), u >>) : u \in UtilsMods }
    \cup { AstCrate(<< AstItem("utils", "Fn", None, <<"fn">>), u >>) : u \in UtilsMods }
    \cup { AstCrate(<< p >>) : p \in PathsMods }
    \cup { AstCrate(<<>>), AstCrate(<< AstItem("utils", "Mod", None, <<"utils">>) >>) }

clippy_lints_internal_check_crate(krate) ==
    /\ pc = "init"
    /\ pc' = "internal_crate"
    /\ lastItem' = krate
    /\ emitted' = internal_check_crate_findings(krate)
    /\ UNCHANGED <<declared_lints, registered_lints, crate_allow, nvisited, locals, symbol_map>>
    /\ UNCHANGED history

NextInternal == \E krate \in AstCrates : clippy_lints_internal_check_crate(krate)

SpecInternal == InitDefPath /\ [][NextInternal]_vars

(***************************************************************************)
(* C27                                                                     *)
(***************************************************************************)
\* The items of utils::paths as the pass looks the module up: the first
\* top-level item named utils and the first item named paths in it, both
\* modules; no items when there is no such module.
NamedItems(items, name) == { i \in 1..Len(items) : items[i].ident = name }

FirstNamed(items, name) ==
    items[CHOOSE i \in NamedItems(items, name) : \A j \in NamedItems(items, name) : i <= j]

UtilsPathsItems ==
    IF NamedItems(lastItem.items, "utils") = {} THEN <<>>
    ELSE LET utils == FirstNamed(lastItem.items, "utils")
         IN  IF ~IsLoadedMod(utils) \/ NamedItems(utils.items.val, "paths") = {} THEN <<>>
             ELSE LET paths == FirstNamed(utils.items.val, "paths")
                  IN  IF IsLoadedMod(paths) THEN paths.items.val ELSE <<>>

OutOfOrder(items) == { i \in 2..Len(items) : str_gt(items[i - 1].ident, items[i].ident) }

C28_SuppressedVisitIsNoOp ==
    [][(IsVisit /\ Suppressed(lastItem'))
          => /\ emitted' = <<>>
             /\ declared_lints' = declared_lints
             /\ registered_lints' = registered_lints
             /\ pc' = "visiting"]_vars

\* A declaration without a version attribute was visited under one of the two
\* allows, after a registration that named it: it is not in the declared set,
\* the registered set is kept, and nothing was reported.
C28_Witness ==
    /\ pc = "visiting"
    /\ Suppressed(lastItem)
    /\ lastItem.allow # {"DEFAULT_LINT", "DEFAULT_DEPRECATION_REASON"}
    /\ IsLintDeclaration(lastItem)
    /\ extract_clippy_version_value(lastItem) = None
    /\ lastItem.ident \notin DOMAIN declared_lints
    /\ lastItem.ident \in registered_lints
    /\ DOMAIN declared_lints # {}
    /\ emitted = <<>>

(***************************************************************************)
(* C29                                                                     *)
(***************************************************************************)
Added == DOMAIN declared_lints' \ DOMAIN declared_lints

HasDefaultDescription(item) ==
    IsLintDeclaration(item) /\ DescOf(item) = "default lint description"

\* What C29 says of every step but the sentinel: a visit adds at most the name
\* of the lint declaration visited, a deprecated-lint declaration adds
\* nothing, and check_crate_post reports only names that lint declarations
\* brought in.
OnlyLintDeclarations ==
    /\ IsVisit =>
          /\ Added \subseteq (IF IsLintDeclaration(lastItem') THEN {lastItem'.ident} ELSE {})
          /\ IsDeprecatedDeclaration(lastItem') => declared_lints' = declared_lints
          /\ \A n \in DOMAIN declared_lints : n \in DOMAIN declared_lints'
    /\ pc' = "done" => ReportedNames' \subseteq seen_decl_all

\* C29 as stated: a name enters the declared set only at the visit of a
\* non-deprecated lint declaration, deprecated lints are never added and never
\* reported, and a lint with the default description is added when visited.
C29_AsStated ==
    [][/\ OnlyLintDeclarations
       /\ (IsVisit /\ HasDefaultDescription(lastItem'))
             => lastItem'.ident \in DOMAIN declared_lints']_vars

\* C29, amended: the same, a lint with the default description being added
\* when visited at an item at which neither DEFAULT_LINT nor
\* DEFAULT_DEPRECATION_REASON is allowed.
C29_DeclaredSet ==
    [][/\ OnlyLintDeclarations
       /\ (IsVisit /\ HasDefaultDescription(lastItem') /\ ~Suppressed(lastItem'))
             => /\ lastItem'.ident \in DOMAIN declared_lints'
                /\ Count("DEFAULT_LINT")' = 1]_vars

\* The second visit was of a lint with the default description, at an item
\* allowing neither lint, no lint being declared before: it was reported for
\* the description and is the one declared lint.
C29_Witness ==
    /\ pc = "visiting"
    /\ nvisited = 2
    /\ HasDefaultDescription(lastItem)
    /\ ~Suppressed(lastItem)
    /\ Count("DEFAULT_LINT") = 1
    /\ DOMAIN declared_lints = {lastItem.ident}
    /\ seen_decl_all = {lastItem.ident}

(***************************************************************************)
(* C30                                                                     *)
(***************************************************************************)
Occurs(sub, text) ==
    \E i \in 1..(Len(text) - Len(sub) + 1) : SubSeq(text, i, i + Len(sub) - 1) = sub

DiagnosticTagged(f, e) ==
    /\ f.msg = "use of a def path to a diagnostic item"
    /\ HasRewrite(f)
    /\ Occurs("sym::" \o e.diag.val, f.sugg.text)
    /\ ~Occurs("LangItem::", f.sugg.text)

LangTagged(f, e) ==
    /\ f.msg = "use of a def path to a 'LangItem'"
    /\ HasRewrite(f)
    /\ Occurs("LangItem::" \o e.lang.val, f.sugg.text)
    /\ ~Occurs("sym::", f.sugg.text)

\* C30: the finding for a call whose path names a diagnostic item has the
\* diagnostic-item message and a sym:: rewrite, also when the entity is a
\* lang item as well; the LangItem message and rewrite are those of an
\* entity that is a lang item and no diagnostic item; every finding is of
\* one of the two kinds.
C30_DiagnosticFirst ==
    (pc = "expr" /\ emitted # <<>>) =>
        /\ Len(emitted) = 1
        /\ NamedEntity # None
        /\ IF IsDiagnosticItem(NamedEntity.val)
           THEN DiagnosticTagged(emitted[1], NamedEntity.val)
           ELSE /\ IsLangItemOnly(NamedEntity.val)
                /\ LangTagged(emitted[1], NamedEntity.val)

\* A call naming an entity that is both a diagnostic item and a lang item
\* was reported as a def path to a diagnostic item.
C30_Witness ==
    /\ pc = "expr"
    /\ Len(emitted) = 1
    /\ NamedEntity # None
    /\ NamedEntity.val.diag # None
    /\ NamedEntity.val.lang # None
    /\ DiagnosticTagged(emitted[1], NamedEntity.val)

====
